---------------------------- MODULE Spec2Model ----------------------------
(***************************************************************************)
(* Verification model of the CSV repair scripts of beekon-demo.            *)
(*                                                                         *)
(* Text is modelled as a sequence of one-character strings, so that the    *)
(* Python string operations and regular expressions the scripts rely on    *)
(* (split, strip, find, rsplit, re.match, re.finditer) are computed        *)
(* character by character, the way the interpreter computes them.          *)
(***************************************************************************)
EXTENDS Integers, Sequences, FiniteSets, TLC

(***************************************************************************)
(* Character classes of the regular expressions.                           *)
(***************************************************************************)
Digits == {"0", "1", "2", "3", "4", "5", "6", "7", "8", "9"}

HexLower == Digits \cup {"a", "b", "c", "d", "e", "f"}

\* str.strip() without argument and the regex class \s
Whitespace == {" ", "\t", "\n", "\r", "\f"}

\* Python's None; the scripts only ever test it for truthiness.
None == <<>>

(***************************************************************************)
(* State.                                                                  *)
(*                                                                         *)
(* Resolver check: columns and quoted are the column values and the        *)
(* quoting a record was rendered from, arg_lines the argument of the       *)
(* resolver and ret_record what it returned.                               *)
(*                                                                         *)
(* Segmenting scripts: the local variables of the script that runs (prog). *)
(* lines holds the data lines of the input file read so far (the header    *)
(* line is skipped by the scripts and is not modelled).  handed and origin *)
(* are history variables: the logical records given to the resolver with   *)
(* the number of the line that opened them, and for every element of       *)
(* records the number of the line its logical record started at.  broke    *)
(* records that the loop was left by break.                                *)
(*                                                                         *)
(* LLMCSVCleaner.process_file: header_line and current_line are its        *)
(* locals, stats the statistics of the cleaner, infile the data lines read *)
(* so far and outfile the lines the csv writer has written.  validated is  *)
(* a history variable: for every call of validate_row by process_file,     *)
(* where the row came from, the verdict and whether the row was written.   *)
(*                                                                         *)
(* fix_csv_file: content is the text of the input file, line_index the     *)
(* loop index i, fixed_file the lines written at the end; the others are   *)
(* the locals of the function.                                             *)
(*                                                                         *)
(* validate_row: arg_row is the argument of a call, ret_validation the     *)
(* dictionary the method builds and returns.                               *)
(*                                                                         *)
(* Competitor resolver check: comp_columns, comp_quoted and comp_split are *)
(* the column values, the quoting and the line break a competitor record   *)
(* was rendered with, arg_comp_lines the argument of                       *)
(* parse_competitor_record and ret_comp_record what it returned.           *)
(*                                                                         *)
(* Field cleaning: arg_text is a field value, ret_text what the cleaning   *)
(* made of it and tpc the cleaning that was applied.                       *)
(*                                                                         *)
(* fix_csv_simple, run on an input and then on its own output: simple_run  *)
(* is the number of the run, simple_lines what readlines returned (in the  *)
(* first run: the lines read so far), simple_i the number of lines the     *)
(* loop has gone through, simple_fixed_lines, simple_current_record and    *)
(* simple_record_count the locals fixed_lines, current_record and          *)
(* record_count, simple_file the text of the output file and simple_first  *)
(* the outcome of the first run.                                           *)
(*                                                                         *)
(* Anchor check: anchor_fields are the two free texts and the two          *)
(* timestamp columns of a record, anchor_quoted the quoting it is rendered *)
(* with, arg_anchor_lines the lines given to the resolver that apc names   *)
(* and ret_anchor what that resolver returned.                             *)
(*                                                                         *)
(* process_record_lines of fix_csv_final.py is called on the same lines as *)
(* the resolver of the resolver check: ret_fields is what it returned.     *)
(*                                                                         *)
(* The __main__ block of a segmenting script: printed is what it printed   *)
(* about the outcome, exited whether the process has ended and exit_status *)
(* the status it ended with.                                               *)
(***************************************************************************)
VARIABLES columns, quoted, arg_lines, ret_record, rpc

resolverVars == <<columns, quoted, arg_lines, ret_record, rpc>>

VARIABLES prog, lines, max_records, valid_llm_ids, records, current_record_lines,
          processed, total_processed, valid_records, fk_violations,
          malformed_records, written, pc, broke, handed, origin

segVars == <<prog, lines, max_records, valid_llm_ids, records, current_record_lines,
             processed, total_processed, valid_records, fk_violations,
             malformed_records, written, pc, broke, handed, origin>>

VARIABLES header_line, infile, current_line, outfile, stats, lpc, validated

llmVars == <<header_line, infile, current_line, outfile, stats, lpc, validated>>

VARIABLES content, line_index, fixed_records, current_record, record_count,
          field_count, fixed_file, fpc

fixVars == <<content, line_index, fixed_records, current_record, record_count,
             field_count, fixed_file, fpc>>

VARIABLES arg_row, ret_validation, vpc

validateVars == <<arg_row, ret_validation, vpc>>

VARIABLES arg_text, ret_text, tpc

textVars == <<arg_text, ret_text, tpc>>

VARIABLES comp_columns, comp_quoted, comp_split, arg_comp_lines, ret_comp_record, cpc

compVars == <<comp_columns, comp_quoted, comp_split, arg_comp_lines, ret_comp_record, cpc>>

VARIABLES anchor_fields, anchor_quoted, arg_anchor_lines, ret_anchor, apc

anchorVars == <<anchor_fields, anchor_quoted, arg_anchor_lines, ret_anchor, apc>>

VARIABLES simple_run, simple_lines, simple_i, simple_fixed_lines,
          simple_current_record, simple_record_count, simple_file, simple_first, spc

simpleVars == <<simple_run, simple_lines, simple_i, simple_fixed_lines,
                simple_current_record, simple_record_count, simple_file,
                simple_first, spc>>

VARIABLES ret_fields, ppc

processVars == <<ret_fields, ppc>>

VARIABLES printed, exited, exit_status

mainVars == <<printed, exited, exit_status>>

\* What each group of operations leaves alone.
notResolverVars ==
    <<segVars, llmVars, fixVars, validateVars, textVars, compVars, processVars, mainVars,
      anchorVars, simpleVars>>

notSegVars ==
    <<resolverVars, llmVars, fixVars, validateVars, textVars, compVars, processVars, mainVars,
      anchorVars, simpleVars>>

notLLMVars ==
    <<resolverVars, segVars, fixVars, validateVars, textVars, compVars, processVars, mainVars,
      anchorVars, simpleVars>>

notFixVars ==
    <<resolverVars, segVars, llmVars, validateVars, textVars, compVars, processVars, mainVars,
      anchorVars, simpleVars>>

notValidateVars ==
    <<resolverVars, segVars, llmVars, fixVars, textVars, compVars, processVars, mainVars,
      anchorVars, simpleVars>>

notTextVars ==
    <<resolverVars, segVars, llmVars, fixVars, validateVars, compVars, processVars, mainVars,
      anchorVars, simpleVars>>

notMainVars ==
    <<resolverVars, segVars, llmVars, fixVars, validateVars, textVars, compVars,
      processVars, anchorVars, simpleVars>>

notProcessVars ==
    <<resolverVars, segVars, llmVars, fixVars, validateVars, textVars, compVars,
      mainVars, anchorVars, simpleVars>>

notAnchorVars ==
    <<resolverVars, segVars, llmVars, fixVars, validateVars, textVars, compVars,
      processVars, mainVars, simpleVars>>

notSimpleVars ==
    <<resolverVars, segVars, llmVars, fixVars, validateVars, textVars, compVars,
      processVars, mainVars, anchorVars>>

notCompVars ==
    <<resolverVars, segVars, llmVars, fixVars, validateVars, textVars, processVars, mainVars,
      anchorVars, simpleVars>>

(***************************************************************************)
(* Text constants the inputs are built from.                               *)
(***************************************************************************)
UuidA == <<"a", "1", "b", "2", "c", "3", "d", "4", "-", "e", "5", "f", "6", "-", "7", "8", "9", "0", "-", "a", "b", "c", "d", "-", "e", "f", "1", "2", "3", "4", "5", "6", "7", "8", "9", "0">>

UuidB == <<"0", "f", "9", "e", "8", "d", "7", "c", "-", "6", "b", "5", "a", "-", "4", "3", "2", "1", "-", "8", "7", "6", "5", "-", "0", "1", "2", "3", "4", "5", "6", "7", "8", "9", "a", "b">>

TsA == <<"2", "0", "2", "5", "-", "0", "1", "-", "0", "1", " ", "0", "0", ":", "0", "0", ":", "0", "0", ".", "0", "0", "0", "0", "0", "0", "+", "0", "0">>

TsB == <<"2", "0", "2", "5", "-", "0", "9", "-", "1", "7", " ", "1", "2", ":", "3", "0", ":", "4", "5", ".", "5", "+", "0", "0">>

(***************************************************************************)
(* Python string operations.  Indices returned by Find, RFind and the      *)
(* regular-expression matches are 0-based, as in Python; Slice(s, a, b)    *)
(* is s[a:b].                                                              *)
(***************************************************************************)
\* The element of a one-element set.  {e(v) : v \in {x}} computes x once,
\* however often e uses it.
The(S) == CHOOSE x \in S : TRUE

Slice(s, a, b) ==
    LET lo == IF a < 0 THEN 0 ELSE a
        hi == IF b > Len(s) THEN Len(s) ELSE b
    IN  IF lo >= hi THEN <<>> ELSE SubSeq(s, lo + 1, hi)

\* Position (1-based) of the first character at or after k that is not in
\* chars, Len(s) + 1 when there is none.
FirstKeep(s, chars, k) ==
    CHOOSE j \in k..(Len(s) + 1) :
        /\ (j = Len(s) + 1 \/ s[j] \notin chars)
        /\ \A i \in k..(j - 1) : s[i] \in chars

\* Position (1-based) of the last character at or before k that is not in
\* chars, 0 when there is none.
LastKeep(s, chars, k) ==
    CHOOSE j \in 0..k :
        /\ (j = 0 \/ s[j] \notin chars)
        /\ \A i \in (j + 1)..k : s[i] \in chars

\* s.strip(chars)
Strip(s, chars) ==
    LET lo == FirstKeep(s, chars, 1)
        hi == LastKeep(s, chars, Len(s))
    IN  IF lo > hi THEN <<>> ELSE SubSeq(s, lo, hi)

\* s.rstrip(chars)
RStrip(s, chars) == SubSeq(s, 1, LastKeep(s, chars, Len(s)))

\* s.strip()
StripWs(s) == Strip(s, Whitespace)

\* s.split(c) for a one-character separator c: the pieces between
\* consecutive occurrences of c, in order.
Split(s, c) ==
    LET at == {k \in 1..Len(s) : s[k] = c}
        n == Cardinality(at)
        pos == [i \in 1..n |-> CHOOSE k \in at : Cardinality({j \in at : j < k}) = i - 1]
        edge == [i \in 0..(n + 1) |->
                    IF i = 0 THEN 0 ELSE IF i = n + 1 THEN Len(s) + 1 ELSE pos[i]]
    IN  [i \in 1..(n + 1) |-> SubSeq(s, edge[i - 1] + 1, edge[i] - 1)]

RECURSIVE JoinFrom(_, _, _)
JoinFrom(parts, sep, k) ==
    IF k > Len(parts) THEN <<>>
    ELSE IF k = Len(parts) THEN parts[k]
    ELSE parts[k] \o sep \o JoinFrom(parts, sep, k + 1)

\* sep.join(parts)
Join(parts, sep) == JoinFrom(parts, sep, 1)

\* s[p:].startswith(sub), p 0-based
StartsWithAt(s, sub, p) ==
    /\ p >= 0
    /\ p + Len(sub) <= Len(s)
    /\ \A j \in 1..Len(sub) : s[p + j] = sub[j]

\* s.find(sub, p): the lowest index at or after p where sub occurs, or -1
FindFrom(s, sub, p) ==
    LET hits == {q \in p..(Len(s) - Len(sub)) : StartsWithAt(s, sub, q)}
    IN  IF hits = {} THEN -1
        ELSE CHOOSE q \in hits : \A r \in hits : q <= r

\* s.find(sub)
Find(s, sub) == FindFrom(s, sub, 0)

\* s.rfind(sub): the highest index where sub occurs, or -1
RFind(s, sub) ==
    LET hits == {q \in 0..(Len(s) - Len(sub)) : StartsWithAt(s, sub, q)}
    IN  IF hits = {} THEN -1
        ELSE CHOOSE q \in hits : \A r \in hits : q >= r

\* The three-character joint "," between the two free-text columns.
Joint == <<"\"", ",", "\"">>

Quote == {"\""}

SpaceComma == {" ", ","}

(***************************************************************************)
(* Regular expressions.                                                    *)
(***************************************************************************)
\* For each position of [0-9a-f]{8}-[0-9a-f]{4}-[0-9a-f]{4}-[0-9a-f]{4}-[0-9a-f]{12}
\* whether it is a hyphen.
UuidHyphenAt == {9, 14, 19, 24}

UuidLen == 36

\* re.match(r'[0-9a-f]{8}-[0-9a-f]{4}-[0-9a-f]{4}-[0-9a-f]{4}-[0-9a-f]{12}', s[p:])
UuidAt(s, p) ==
    /\ p + UuidLen <= Len(s)
    /\ \A j \in 1..UuidLen :
          IF j \in UuidHyphenAt THEN s[p + j] = "-" ELSE s[p + j] \in HexLower

\* uuid_pattern.match(line): ^<uuid>,
uuid_pattern(line) ==
    /\ UuidAt(line, 0)
    /\ Len(line) > UuidLen
    /\ line[UuidLen + 1] = ","

\* re.match(r'^<uuid>$', s); $ also matches before a final newline
uuid_exact(s) ==
    /\ UuidAt(s, 0)
    /\ \/ Len(s) = UuidLen
       \/ Len(s) = UuidLen + 1 /\ s[UuidLen + 1] = "\n"

\* The fixed part \d{4}-\d{2}-\d{2} \d{2}:\d{2}:\d{2} of the timestamp
\* pattern: the separator each position must hold, a digit elsewhere.
TsSeparators == (5 :> "-") @@ (8 :> "-") @@ (11 :> " ") @@ (14 :> ":") @@ (17 :> ":")

TsFixedLen == 19

TsFixedAt(s, p) ==
    /\ p + TsFixedLen <= Len(s)
    /\ \A j \in 1..TsFixedLen :
          IF j \in DOMAIN TsSeparators THEN s[p + j] = TsSeparators[j]
          ELSE s[p + j] \in Digits

\* End (0-based, exclusive) of the match of
\* \d{4}-\d{2}-\d{2} \d{2}:\d{2}:\d{2}\.\d+\+\d{2} at 0-based position p,
\* or -1 when the pattern does not match there.  \d+ is greedy and is
\* followed by a non-digit, so it takes the whole run of digits.
TimestampEndAt(s, p) ==
    IF ~TsFixedAt(s, p) THEN -1
    ELSE IF ~(p + TsFixedLen + 1 <= Len(s) /\ s[p + TsFixedLen + 1] = ".") THEN -1
    ELSE LET q == FirstKeep(s, Digits, p + TsFixedLen + 2)   \* 1-based, first non-digit
         IN  IF q = p + TsFixedLen + 2 THEN -1                \* \d+ needs one digit
             ELSE IF q + 2 > Len(s) THEN -1
             ELSE IF s[q] = "+" /\ s[q + 1] \in Digits /\ s[q + 2] \in Digits
                  THEN q + 2
             ELSE -1

\* The scan of finditer: the first match at or after p, then on from its end.
RECURSIVE FindIterFrom(_, _)
FindIterFrom(s, p) ==
    LET hits == {q \in p..(Len(s) - 1) : TimestampEndAt(s, q) >= 0}
    IN  IF hits = {} THEN <<>>
        ELSE LET q == CHOOSE h \in hits : \A r \in hits : h <= r
                 e == TimestampEndAt(s, q)
             IN  <<[start |-> q, end |-> e]>> \o FindIterFrom(s, e)

\* The scan stopped after the second match.
timestamp_finditer_first_two(s) ==
    LET found == FindIterFrom(s, 0)
    IN  IF Len(found) > 2 THEN SubSeq(found, 1, 2) ELSE found

\* list(re.finditer(timestamp_pattern, s)): the non-overlapping matches,
\* left to right.
timestamp_finditer(s) == FindIterFrom(s, 0)

\* match.group()
Group(s, m) == Slice(s, m.start, m.end)

(***************************************************************************)
(* create_clean_csv.py: the resolver parse_record_lines.                   *)
(***************************************************************************)
\* ' '.join(lines).strip()
full_line_of(record_lines) == StripWs(Join(record_lines, <<" ">>))

\* The text between field 8 and analyzed_at:
\* full_line[full_line.find(confidence_score) + len(confidence_score) + 1
\*           : analyzed_at_start].strip(' ,')
middle_part_of(full_line, confidence_score, analyzed_at_start) ==
    Strip(Slice(full_line,
                Find(full_line, confidence_score) + Len(confidence_score) + 1,
                analyzed_at_start),
          SpaceComma)

\* Split response_text and summary_text at the last joint; without a joint
\* the whole span is response_text.
\* text_parts_of without the .strip('"') of the two parts: what C4 would
\* see if the quotes were left on.
text_parts_of_keeping_quotes(middle_part) ==
    LET j == RFind(middle_part, Joint)
    IN  IF j >= 0
        THEN <<Slice(middle_part, 0, j),
               Slice(middle_part, j + Len(Joint), Len(middle_part))>>
        ELSE <<middle_part, <<>>>>

text_parts_of(middle_part) ==
    LET j == RFind(middle_part, Joint)
    IN  IF j >= 0
        THEN <<Strip(Slice(middle_part, 0, j), Quote),
               Strip(Slice(middle_part, j + Len(Joint), Len(middle_part)), Quote)>>
        ELSE <<Strip(middle_part, Quote), <<>>>>

parse_record_lines(record_lines) ==
    LET full_line == full_line_of(record_lines)
        timestamps == timestamp_finditer(full_line)
    IN  IF Len(timestamps) >= 2
        THEN LET analyzed_at_match == timestamps[Len(timestamps) - 1]
                 created_at_match == timestamps[Len(timestamps)]
                 parts == Split(full_line, ",")
             IN  IF Len(parts) >= 8
                 THEN LET fixed_fields == [k \in 1..8 |-> StripWs(parts[k])]
                          confidence_score == fixed_fields[8]
                          middle_part == middle_part_of(full_line, confidence_score,
                                                        analyzed_at_match.start)
                          text_parts == text_parts_of(middle_part)
                          analyzed_at == Group(full_line, analyzed_at_match)
                          created_at == Group(full_line, created_at_match)
                          remaining_text == Strip(Slice(full_line, created_at_match.end,
                                                        Len(full_line)), SpaceComma)
                      IN  fixed_fields \o text_parts
                            \o <<analyzed_at, created_at, remaining_text>>
                 ELSE None
        ELSE None

Pid == <<"p", "i", "d">>

Wid == <<"w", "i", "d">>

Chatgpt == <<"c", "h", "a", "t", "g", "p", "t">>

True == <<"t", "r", "u", "e">>

Rank1 == <<"1">>

Score050 == <<"0", ".", "5", "0">>

Score090 == <<"0", ".", "9", "0">>

ScoreNeg020 == <<"-", "0", ".", "2", "0">>

Hello == <<"h", "e", "l", "l", "o">>

World == <<"w", "o", "r", "l", "d">>

TextAB == <<"a", " ", "b">>

(***************************************************************************)
(* Resolver inputs: a record is rendered from its thirteen column values   *)
(* as the export wrote it, the two free-text columns inside double quotes  *)
(* when quoted is TRUE.                                                    *)
(***************************************************************************)
InQuotes(s) == <<"\"">> \o s \o <<"\"">>

render(cols, q) ==
    Join([k \in 1..Len(cols) |->
             IF k \in {9, 10} /\ q THEN InQuotes(cols[k]) ELSE cols[k]],
         <<",">>)

\* Column values of well-formed analysis-results rows (no comma, no quote
\* and no surrounding blank in any column).
LLMColumns ==
    { <<UuidA, Pid, Chatgpt, Wid, True, Rank1, s, c, r, m, a, TsA, sid>> :
        s \in {Score050, ScoreNeg020},
        c \in {Score090, Score050, Rank1},
        r \in {Hello, TextAB, <<>>},
        m \in {World, <<>>},
        a \in {TsA, TsB},
        sid \in {<<>>, UuidB} }

\* The scenario line of the specification, character by character.
ScenarioLine == <<"a", "1", "b", "2", "c", "3", "d", "4", "-", "e", "5", "f", "6", "-", "7", "8", "9", "0", "-", "a", "b", "c", "d", "-", "e", "f", "1", "2", "3", "4", "5", "6", "7", "8", "9", "0", ",", "p", "i", "d", ",", "c", "h", "a", "t", "g", "p", "t", ",", "w", "i", "d", ",", "t", "r", "u", "e", ",", "1", ",", "0", ".", "5", "0", ",", "0", ".", "9", "0", ",", "\"", "h", "e", "l", "l", "o", "\"", ",", "\"", "w", "o", "r", "l", "d", "\"", ",", "2", "0", "2", "5", "-", "0", "1", "-", "0", "1", " ", "0", "0", ":", "0", "0", ":", "0", "0", ".", "0", "0", "0", "0", "0", "0", "+", "0", "0", ",", "2", "0", "2", "5", "-", "0", "1", "-", "0", "1", " ", "0", "0", ":", "0", "0", ":", "0", "0", ".", "0", "0", "0", "0", "0", "0", "+", "0", "0", ",">>

ScenarioColumns ==
    <<UuidA, Pid, Chatgpt, Wid, True, Rank1, Score050, Score090, Hello, World, TsA, TsA, <<>>>>

ResolverInit ==
    /\ columns \in LLMColumns
    /\ quoted \in BOOLEAN
    /\ arg_lines = <<render(columns, quoted)>>
    /\ ret_record = None
    /\ rpc = "call"

\* record = parse_record_lines(lines)
CallParseRecordLines ==
    /\ rpc = "call"
    /\ ret_record' = parse_record_lines(arg_lines)
    /\ rpc' = "returned"
    /\ UNCHANGED <<columns, quoted, arg_lines>>
    /\ UNCHANGED notResolverVars

(***************************************************************************)
(* fix_csv_final.py: the resolver process_record_lines.                    *)
(***************************************************************************)
\* timestamp_pattern.search(part) for \d{4}-\d{2}-\d{2} \d{2}:\d{2}:\d{2}
timestamp_search(part) == \E p \in 0..Len(part) : TsFixedAt(part, p)

\* quote_split = response_text.rsplit('","', 1): response_only is the left
\* part .strip('"'), summary_text the right part .strip(); without a joint
\* everything is response_only.
quote_split_of(response_text) ==
    LET j == RFind(response_text, Joint)
    IN  IF j >= 0
        THEN <<Strip(Slice(response_text, 0, j), Quote),
               StripWs(Slice(response_text, j + Len(Joint), Len(response_text)))>>
        ELSE <<Strip(response_text, Quote), <<>>>>

\* ','.join(response_text_parts).strip()
response_text_of(record_lines) ==
    LET full_text == StripWs(Join(record_lines, <<" ">>))
        parts == Split(full_text, ",")
        remaining_parts == SubSeq(parts, 9, Len(parts))
        timestamp_positions == {i \in 1..Len(remaining_parts) :
                                   timestamp_search(remaining_parts[i])}
        second_last_pos ==
            CHOOSE i \in timestamp_positions :
                Cardinality({k \in timestamp_positions : k > i}) = 1
    IN  StripWs(Join(SubSeq(remaining_parts, 1, second_last_pos - 1), <<",">>))

process_record_lines(record_lines) ==
    LET full_text == StripWs(Join(record_lines, <<" ">>))
        parts == Split(full_text, ",")
    IN  IF Len(parts) < 13 THEN None
        ELSE
        LET fields == SubSeq(parts, 1, 8)
            remaining_parts == SubSeq(parts, 9, Len(parts))
            timestamp_positions == {i \in 1..Len(remaining_parts) :
                                       timestamp_search(remaining_parts[i])}
        IN  IF Cardinality(timestamp_positions) >= 2
            THEN LET last_timestamp_pos ==
                         CHOOSE i \in timestamp_positions :
                             \A k \in timestamp_positions : k <= i
                     second_last_pos ==
                         CHOOSE i \in timestamp_positions :
                             Cardinality({k \in timestamp_positions : k > i}) = 1
                     analyzed_at_parts ==
                         SubSeq(remaining_parts, second_last_pos, last_timestamp_pos - 1)
                     created_at_parts ==
                         SubSeq(remaining_parts, last_timestamp_pos, last_timestamp_pos)
                     session_id_parts ==
                         SubSeq(remaining_parts, last_timestamp_pos + 1,
                                Len(remaining_parts))
                     all == fields \o quote_split_of(response_text_of(record_lines))
                              \o <<StripWs(Join(analyzed_at_parts, <<",">>)),
                                   StripWs(Join(created_at_parts, <<",">>)),
                                   StripWs(Join(session_id_parts, <<",">>))>>
                 IN  SubSeq(all, 1, 13)
            ELSE None

ProcessInit ==
    /\ ret_fields = None
    /\ ppc = "call"

\* record = process_record_lines(current_record_lines)
CallProcessRecordLines ==
    /\ ppc = "call"
    /\ ret_fields' = process_record_lines(arg_lines)
    /\ ppc' = "returned"
    /\ UNCHANGED notProcessVars

ResolverNext == CallParseRecordLines \/ CallProcessRecordLines

(***************************************************************************)
(* fix_competitor_csv.py: the resolver parse_competitor_record.            *)
(***************************************************************************)
\* Split response_text and summary_text of middle_text.
competitor_text_parts(middle_text) ==
    LET j == RFind(middle_text, Joint)
    IN  IF j >= 0
        THEN <<Strip(Slice(middle_text, 0, j), Quote),
               Strip(Slice(middle_text, j + Len(Joint), Len(middle_text)), Quote)>>
        ELSE <<Strip(middle_text, Quote), <<>>>>

\* prompt_id and analysis_session_id from the text after created_at.
competitor_final_parts(remaining_after_created) ==
    LET final_parts == IF remaining_after_created # <<>>
                       THEN Split(remaining_after_created, ",")
                       ELSE <<<<>>, <<>>>>
    IN  <<IF Len(final_parts) > 0 THEN StripWs(final_parts[1]) ELSE <<>>,
          IF Len(final_parts) > 1 THEN StripWs(final_parts[2]) ELSE <<>>>>

parse_competitor_record(record_lines) ==
    LET full_line == StripWs(Join(record_lines, <<" ">>))
        parts == Split(full_line, ",")
    IN  IF Len(parts) < 14 THEN None
        ELSE
        LET fixed_fields == [k \in 1..8 |-> StripWs(parts[k])]
            remaining_parts == SubSeq(parts, 9, Len(parts))
            remaining_text == Join(remaining_parts, <<",">>)
            timestamps == timestamp_finditer(remaining_text)
        IN  IF Len(timestamps) >= 2
            THEN LET analyzed_at_match == timestamps[Len(timestamps) - 1]
                     created_at_match == timestamps[Len(timestamps)]
                     middle_text == Strip(Slice(remaining_text, 0, analyzed_at_match.start),
                                          SpaceComma)
                     analyzed_at == Group(remaining_text, analyzed_at_match)
                     created_at == Group(remaining_text, created_at_match)
                     remaining_after_created ==
                         Strip(Slice(remaining_text, created_at_match.end,
                                     Len(remaining_text)), SpaceComma)
                 IN  fixed_fields \o competitor_text_parts(middle_text)
                       \o <<analyzed_at, created_at>>
                       \o competitor_final_parts(remaining_after_created)
            ELSE None

(***************************************************************************)
(* Calls of parse_competitor_record.  A competitor record is rendered from *)
(* its fourteen column values as the export wrote it, the two free-text    *)
(* columns inside double quotes when comp_quoted is TRUE, and broken into  *)
(* two physical lines after the first comma of the text span when          *)
(* comp_split is TRUE.                                                     *)
(***************************************************************************)
TextWithComma == <<"a", ",", "b">>

OtherTextWithComma == <<"c", ",", "d">>

\* Column values of competitor rows: free texts with and without commas,
\* prompt_id and analysis_session_id present or empty.
CompColumns ==
    { <<UuidA, UuidB, UuidA, Chatgpt, True, Rank1, Score050, c, r, s, TsA, a, p, sid>> :
        c \in {Score090, Score050},
        r \in {TextWithComma, Hello},
        s \in {OtherTextWithComma, World, <<>>},
        a \in {TsA, TsB},
        p \in {UuidB, <<>>},
        sid \in {<<>>, UuidA} }

\* The physical lines of the rendered record.
comp_lines_of(cols, q, split) ==
    LET line == render(cols, q)
        span_start == Len(Join(SubSeq(cols, 1, 8), <<",">>)) + 1
        break == FindFrom(line, <<",">>, span_start + 1)
    IN  IF split /\ break >= 0
        THEN <<Slice(line, 0, break + 1), Slice(line, break + 1, Len(line))>>
        ELSE <<line>>

CompResolverInit ==
    /\ comp_columns \in CompColumns
    /\ comp_quoted \in BOOLEAN
    /\ comp_split \in BOOLEAN
    /\ arg_comp_lines = comp_lines_of(comp_columns, comp_quoted, comp_split)
    /\ ret_comp_record = None
    /\ cpc = "call"

\* record = parse_competitor_record(current_record_lines, timestamp_pattern)
CallParseCompetitorRecord ==
    /\ cpc = "call"
    /\ ret_comp_record' = parse_competitor_record(arg_comp_lines)
    /\ cpc' = "returned"
    /\ UNCHANGED <<comp_columns, comp_quoted, comp_split, arg_comp_lines>>
    /\ UNCHANGED notCompVars

CompResolverNext == CallParseCompetitorRecord

(***************************************************************************)
(* Calls of the two resolvers on records whose free texts hold             *)
(* timestamp-shaped text and whose timestamp columns carry a positive or a *)
(* negative UTC offset.                                                    *)
(***************************************************************************)
\* 2025-01-01 00:00:00.000000-05
TsNegA == SubSeq(TsA, 1, Len(TsA) - 3) \o <<"-", "0", "5">>

\* 2025-09-17 12:30:45.5-05
TsNegB == SubSeq(TsB, 1, Len(TsB) - 3) \o <<"-", "0", "5">>

\* "see " followed by a timestamp
SeeTsA == <<"s", "e", "e", " ">> \o TsA

\* response_text, summary_text, analyzed_at, created_at
AnchorFields ==
    { <<r, s, a, c>> :
        r \in {Hello, TsB, SeeTsA},
        s \in {World, TsB},
        a \in {TsA, TsB, TsNegA},
        c \in {TsA, TsNegB} }

\* The row of the analysis-results table with these four columns.
llm_row_of(f) ==
    <<UuidA, Pid, Chatgpt, Wid, True, Rank1, Score050, Score090,
      f[1], f[2], f[3], f[4], <<>>>>

\* The row of the competitor table with these four columns.
comp_row_of(f) ==
    <<UuidA, UuidB, UuidA, Chatgpt, True, Rank1, Score050, Score090,
      f[1], f[2], f[3], f[4], UuidB, <<>>>>

AnchorInit ==
    /\ anchor_fields \in AnchorFields
    /\ anchor_quoted \in BOOLEAN
    /\ arg_anchor_lines = <<>>
    /\ ret_anchor = None
    /\ apc = "call"

\* record = parse_record_lines(current_record_lines)
AnchorParseRecordLines ==
    /\ apc = "call"
    /\ \E ls \in {<<render(llm_row_of(anchor_fields), anchor_quoted)>>} :
          /\ arg_anchor_lines' = ls
          /\ ret_anchor' = parse_record_lines(ls)
    /\ apc' = "parse_record_lines"
    /\ UNCHANGED <<anchor_fields, anchor_quoted>>
    /\ UNCHANGED notAnchorVars

\* record = parse_competitor_record(current_record_lines, timestamp_pattern)
AnchorParseCompetitorRecord ==
    /\ apc = "call"
    /\ \E ls \in {<<render(comp_row_of(anchor_fields), anchor_quoted)>>} :
          /\ arg_anchor_lines' = ls
          /\ ret_anchor' = parse_competitor_record(ls)
    /\ apc' = "parse_competitor_record"
    /\ UNCHANGED <<anchor_fields, anchor_quoted>>
    /\ UNCHANGED notAnchorVars

AnchorNext == AnchorParseRecordLines \/ AnchorParseCompetitorRecord

(***************************************************************************)
(* fix_competitor_csv_final.py: the resolver parse_competitor_record_robust*)
(***************************************************************************)
\* re.match(r'^(<uuid>),', remaining): the group, or None
match_uuid_field(remaining) ==
    IF uuid_pattern(remaining) THEN Slice(remaining, 0, UuidLen) ELSE None

\* re.match(r'^([^,]+),', remaining): the group, or None
match_plain_field(remaining) ==
    LET c == Find(remaining, <<",">>)
    IN  IF c >= 1 THEN Slice(remaining, 0, c) ELSE None

False == <<"f", "a", "l", "s", "e">>

\* re.match(r'^(true|false),', remaining): the group, or None
match_boolean_field(remaining) ==
    IF StartsWithAt(remaining, True \o <<",">>, 0) THEN True
    ELSE IF StartsWithAt(remaining, False \o <<",">>, 0) THEN False
    ELSE None

\* remaining[len(field) + 1:]
skip_field(remaining, field) == Slice(remaining, Len(field) + 1, Len(remaining))

robust_text_parts(text_part) ==
    LET j == RFind(text_part, Joint)
    IN  IF j >= 0
        THEN <<Strip(Slice(text_part, 0, j), Quote),
               Strip(Slice(text_part, j + Len(Joint), Len(text_part)), Quote)>>
        ELSE <<Strip(text_part, Quote), <<>>>>

robust_final_parts(after_created_at) ==
    LET final_parts == IF after_created_at # <<>>
                       THEN Split(after_created_at, ",")
                       ELSE <<<<>>, <<>>>>
    IN  <<IF Len(final_parts) > 0 THEN StripWs(final_parts[1]) ELSE <<>>,
          IF Len(final_parts) > 1 THEN StripWs(final_parts[2]) ELSE <<>>>>

\* The part of parse_competitor_record_robust after the eight leading
\* columns have been matched.
robust_tail(leading, remaining) ==
    LET timestamps == timestamp_finditer(remaining)
    IN  IF Len(timestamps) >= 2
        THEN LET analyzed_at_match == timestamps[Len(timestamps) - 1]
                 created_at_match == timestamps[Len(timestamps)]
                 text_part == RStrip(Slice(remaining, 0, analyzed_at_match.start),
                                     SpaceComma)
                 analyzed_at == Group(remaining, analyzed_at_match)
                 created_at == Group(remaining, created_at_match)
                 after_created_at == Strip(Slice(remaining, created_at_match.end,
                                                 Len(remaining)), SpaceComma)
             IN  leading \o robust_text_parts(text_part)
                   \o <<analyzed_at, created_at>>
                   \o robust_final_parts(after_created_at)
        ELSE None

\* The kind of each of the eight leading columns, in the order the function
\* matches them.
RobustLeading == <<"uuid", "uuid", "uuid", "plain", "boolean", "plain", "plain", "plain">>

match_field(kind, remaining) ==
    IF kind = "uuid" THEN match_uuid_field(remaining)
    ELSE IF kind = "boolean" THEN match_boolean_field(remaining)
    ELSE match_plain_field(remaining)

RECURSIVE robust_leading(_, _, _)
robust_leading(k, leading, remaining) ==
    IF k > Len(RobustLeading) THEN robust_tail(leading, remaining)
    ELSE LET field == match_field(RobustLeading[k], remaining)
         IN  IF field = None THEN None
             ELSE robust_leading(k + 1, Append(leading, field), skip_field(remaining, field))

parse_competitor_record_robust(record_lines) ==
    robust_leading(1, <<>>, StripWs(Join(record_lines, <<" ">>)))

(***************************************************************************)
(* The segmenting scripts: create_clean_csv, fix_competitor_csv and        *)
(* fix_competitor_csv_final.  One action is one iteration of the loop      *)
(* over lines[1:], the processing of the final record, or the writing of   *)
(* the output.                                                             *)
(***************************************************************************)
\* Largest number of data lines of an input file.
MaxLines == 3

\* Largest max_records argument tried; 0 stands for None (no limit).
MaxLimit == 1

Eol == <<"\n">>

LineEnd == {"\n", "\r"}

Csv(fields) == Join(fields, <<",">>)

HelloQuoted == InQuotes(Hello)

WorldQuoted == InQuotes(World)

\* "hello" broken after hel
HelOpen == <<"\"", "h", "e", "l">>

LoClose == <<"l", "o", "\"">>

\* The scenario line broken inside "hello": first and second physical line.
ScenarioHead == Csv(<<UuidA, Pid, Chatgpt, Wid, True, Rank1, Score050, Score090, HelOpen>>)

ScenarioTail == Csv(<<LoClose, WorldQuoted, TsA, TsA, <<>>>>)

\* First physical line of a record whose sentiment_score and
\* confidence_score are both 0.50, broken at the same place.
EqualScoresHead == Csv(<<UuidB, Pid, Chatgpt, Wid, True, Rank1, Score050, Score050, HelOpen>>)

\* A line that is a single token.
JunkLine == <<"j", "u", "n", "k">>

\* An anchor line with three tokens.
ShortAnchorLine == Csv(<<UuidB, Pid, Chatgpt>>)

\* The same lines for the competitor table (14 columns: id, competitor_id,
\* llm_analysis_id, ..., created_at, prompt_id, analysis_session_id).
CompLineA ==
    Csv(<<UuidA, UuidB, UuidA, Chatgpt, True, Rank1, Score050, Score090,
          HelloQuoted, WorldQuoted, TsA, TsA, UuidB, <<>>>>)

\* A complete record whose llm_analysis_id is UuidB.
CompLineB ==
    Csv(<<UuidB, UuidA, UuidB, Chatgpt, False, Rank1, Score050, Score090,
          HelloQuoted, WorldQuoted, TsA, TsB, UuidA, <<>>>>)

CompHead == Csv(<<UuidA, UuidB, UuidA, Chatgpt, True, Rank1, Score050, Score090, HelOpen>>)

CompTail == Csv(<<LoClose, WorldQuoted, TsA, TsA, UuidB, <<>>>>)

CompShortAnchorLine == Csv(<<UuidB, UuidA, UuidB, Chatgpt>>)

CompLines == {CompLineA, CompLineB, CompHead, CompTail, JunkLine, CompShortAnchorLine}

\* The record of CompLineA broken after the comma that follows
\* sentiment_score: first and second physical line.
CompPrefixHead == Csv(<<UuidA, UuidB, UuidA, Chatgpt, True, Rank1, Score050, <<>>>>)

CompPrefixTail == Csv(<<Score090, HelloQuoted, WorldQuoted, TsA, TsA, UuidB, <<>>>>)

CompFinalLines == CompLines \cup {CompPrefixHead, CompPrefixTail}

\* The contents of the file of valid llm_analysis_results ids.
ValidIdSets == {{}, {UuidA}}

CleanLines == {ScenarioLine, ScenarioHead, ScenarioTail, EqualScoresHead,
               JunkLine, ShortAnchorLine}

\* The physical lines an input file of the script may consist of.
InputLines(p) ==
    IF p = "create_clean_csv" THEN {l \o Eol : l \in CleanLines}
    ELSE IF p = "fix_competitor_csv" THEN {l \o Eol : l \in CompLines}
    ELSE {l \o Eol : l \in CompFinalLines}

Programs == {"create_clean_csv", "fix_competitor_csv", "fix_competitor_csv_final"}

SegInit ==
    /\ prog \in Programs
    /\ lines = <<>>
    /\ max_records \in (IF prog = "create_clean_csv" THEN 0..MaxLimit ELSE {0})
    /\ valid_llm_ids \in (IF prog = "create_clean_csv" THEN {{}} ELSE ValidIdSets)
    /\ records = <<>>
    /\ current_record_lines = <<>>
    /\ processed = 0
    /\ total_processed = 0
    /\ valid_records = 0
    /\ fk_violations = 0
    /\ malformed_records = 0
    /\ written = <<>>
    /\ pc = "open"
    /\ broke = FALSE
    /\ handed = <<>>
    /\ origin = <<>>

\* with open(input_file, 'r', encoding='utf-8') as f: lines = f.readlines()
\* The file opens, or open raises an OSError that the function does not
\* catch.
OpenInput ==
    /\ pc = "open"
    /\ \E opens \in BOOLEAN : pc' = IF opens THEN "loop" ELSE "open_failed"
    /\ UNCHANGED <<prog, lines, max_records, valid_llm_ids, records,
                   current_record_lines, processed, total_processed, valid_records,
                   fk_violations, malformed_records, written, broke, handed, origin>>
    /\ UNCHANGED notSegVars

\* The function was left by an exception.
Raised == pc \in {"open_failed", "raised"}

\* The function has returned or was left by an exception.
FunctionOver == pc = "done" \/ Raised

\* __main__ of create_clean_csv.py: the call in try, except Exception
\* prints the error and the traceback; the script then runs off its end.
CleanMain ==
    /\ prog = "create_clean_csv"
    /\ FunctionOver
    /\ ~exited
    /\ printed' = IF Raised THEN "Error" ELSE "Successfully created"
    /\ exited' = TRUE
    /\ exit_status' = 0
    /\ UNCHANGED notMainVars

\* __main__ of fix_competitor_csv.py and fix_competitor_csv_final.py: the
\* call in try, except Exception prints the error and the traceback and
\* calls sys.exit(1).
CompMain ==
    /\ prog \in {"fix_competitor_csv", "fix_competitor_csv_final"}
    /\ FunctionOver
    /\ ~exited
    /\ printed' = IF Raised THEN "Error" ELSE "Success"
    /\ exited' = TRUE
    /\ exit_status' = IF Raised THEN 1 ELSE 0
    /\ UNCHANGED notMainVars

\* Number (1-based, among the data lines) of the line that opened the
\* record that is open when `seen` lines have gone through the loop body.
OpenStart(seen) == seen - Len(current_record_lines) + 1

\* The lines that have gone through the loop body: all that were read,
\* except the one fetched by the iteration that broke out of the loop.
Seen == IF broke THEN Len(lines) - 1 ELSE Len(lines)

(***************************************************************************)
(* create_clean_csv                                                        *)
(***************************************************************************)
\* The acceptance test left out: whatever the resolver returns is appended.
IsRecord13_unchecked(record) == TRUE

\* if record and len(record) == 13
IsRecord13(record) == record # None /\ Len(record) = 13

\* if max_records and len(records) >= max_records
LimitReached == max_records # 0 /\ Len(records) >= max_records

\* "Add to current record" without the test that a record is open.
next_record_lines_unguarded(open_lines, line) ==
    IF uuid_pattern(line) THEN <<line>> ELSE Append(open_lines, line)

\* An anchor line does not start a new record while one is open.
next_record_lines_merging(open_lines, line) ==
    IF open_lines # <<>> THEN Append(open_lines, line)
    ELSE IF uuid_pattern(line) THEN <<line>>
    ELSE open_lines

\* "Start new record" at an anchor line, "Add to current record" otherwise,
\* the latter only while a record is open.
next_record_lines(open_lines, line) ==
    IF uuid_pattern(line) THEN <<line>>
    ELSE IF open_lines # <<>> THEN Append(open_lines, line)
    ELSE open_lines

\* One iteration of the loop that does not break.
CleanLoopLine ==
    /\ prog = "create_clean_csv"
    /\ pc = "loop"
    /\ Len(lines) < MaxLines
    /\ ~LimitReached
    /\ \E raw \in InputLines(prog) :
         LET line == RStrip(raw, LineEnd)
         IN  /\ lines' = Append(lines, raw)
             /\ IF uuid_pattern(line)
                THEN /\ IF current_record_lines # <<>>
                        THEN LET record == parse_record_lines(current_record_lines)
                             IN  /\ handed' = Append(handed,
                                        [start |-> OpenStart(Seen),
                                         lines |-> current_record_lines])
                                 /\ IF IsRecord13(record)
                                    THEN /\ records' = Append(records, record)
                                         /\ origin' = Append(origin, OpenStart(Seen))
                                         /\ processed' = processed + 1
                                    ELSE UNCHANGED <<records, origin, processed>>
                        ELSE UNCHANGED <<handed, records, origin, processed>>
                ELSE UNCHANGED <<handed, records, origin, processed>>
             /\ current_record_lines' = next_record_lines(current_record_lines, line)
    /\ UNCHANGED <<prog, max_records, valid_llm_ids, total_processed, valid_records,
                   fk_violations, malformed_records, written, pc, broke>>
    /\ UNCHANGED notSegVars

\* The iteration that finds the limit reached and breaks out of the loop;
\* the line it fetched is not looked at.
CleanLoopBreak ==
    /\ prog = "create_clean_csv"
    /\ pc = "loop"
    /\ Len(lines) < MaxLines
    /\ LimitReached
    /\ \E raw \in InputLines(prog) : lines' = Append(lines, raw)
    /\ pc' = "final"
    /\ broke' = TRUE
    /\ UNCHANGED <<prog, max_records, valid_llm_ids, records, current_record_lines,
                   processed, total_processed, valid_records, fk_violations,
                   malformed_records, written, handed, origin>>
    /\ UNCHANGED notSegVars

\* The end of the input without the "process final record" step.
CleanFinal_skipped ==
    /\ prog = "create_clean_csv"
    /\ pc \in {"loop", "final"}
    /\ pc' = "write"
    /\ UNCHANGED <<prog, lines, max_records, valid_llm_ids, records, current_record_lines,
                   processed, total_processed, valid_records, fk_violations,
                   malformed_records, written, broke, handed, origin>>
    /\ UNCHANGED notSegVars

\* Process final record: the loop ran out of lines (pc = "loop", the file
\* ends here) or broke (pc = "final").
CleanFinal ==
    /\ prog = "create_clean_csv"
    /\ pc \in {"loop", "final"}
    /\ IF current_record_lines # <<>>
       THEN LET record == parse_record_lines(current_record_lines)
            IN  /\ handed' = Append(handed,
                       [start |-> OpenStart(Seen), lines |-> current_record_lines])
                /\ IF IsRecord13(record)
                   THEN /\ records' = Append(records, record)
                        /\ origin' = Append(origin, OpenStart(Seen))
                        /\ processed' = processed + 1
                   ELSE UNCHANGED <<records, origin, processed>>
       ELSE UNCHANGED <<handed, records, origin, processed>>
    /\ pc' = "write"
    /\ UNCHANGED <<prog, lines, max_records, valid_llm_ids, current_record_lines,
                   total_processed, valid_records, fk_violations, malformed_records,
                   written, broke>>
    /\ UNCHANGED notSegVars

\* The rows written newest first.
CleanWrite_newest_first ==
    /\ prog = "create_clean_csv"
    /\ pc = "write"
    /\ written' = [k \in 1..Len(records) |-> records[Len(records) + 1 - k]]
    /\ pc' = "done"
    /\ UNCHANGED <<prog, lines, max_records, valid_llm_ids, records,
                   current_record_lines, processed, total_processed, valid_records,
                   fk_violations, malformed_records, broke, handed, origin>>
    /\ UNCHANGED notSegVars

\* writer.writerows(records); return len(records)
CleanWrite ==
    /\ prog = "create_clean_csv"
    /\ pc = "write"
    /\ written' = records
    /\ pc' = "done"
    /\ UNCHANGED <<prog, lines, max_records, valid_llm_ids, records,
                   current_record_lines, processed, total_processed, valid_records,
                   fk_violations, malformed_records, broke, handed, origin>>
    /\ UNCHANGED notSegVars

(***************************************************************************)
(* fix_competitor_csv                                                      *)
(***************************************************************************)
\* if record and len(record) == 14
IsRecord14(record) == record # None /\ Len(record) = 14

\* The foreign-key test left out.
ForeignKeyOk_unchecked(llm_analysis_id) == TRUE

\* if llm_analysis_id in valid_llm_ids
ForeignKeyOk(llm_analysis_id) == llm_analysis_id \in valid_llm_ids

\* One iteration of the loop.
CompLoopLine ==
    /\ prog = "fix_competitor_csv"
    /\ pc = "loop"
    /\ Len(lines) < MaxLines
    /\ \E raw \in InputLines(prog) :
         LET line == RStrip(raw, LineEnd)
         IN  /\ lines' = Append(lines, raw)
             /\ IF uuid_pattern(line)
                THEN /\ IF current_record_lines # <<>>
                        THEN LET record == parse_competitor_record(current_record_lines)
                             IN  /\ handed' = Append(handed,
                                        [start |-> OpenStart(Seen),
                                         lines |-> current_record_lines])
                                 /\ IF IsRecord14(record)
                                    THEN /\ total_processed' = total_processed + 1
                                         /\ IF ForeignKeyOk(record[3])
                                            THEN /\ records' = Append(records, record)
                                                 /\ origin' = Append(origin, OpenStart(Seen))
                                                 /\ valid_records' = valid_records + 1
                                                 /\ UNCHANGED fk_violations
                                            ELSE /\ fk_violations' = fk_violations + 1
                                                 /\ UNCHANGED <<records, origin, valid_records>>
                                         /\ UNCHANGED malformed_records
                                    ELSE /\ malformed_records' = malformed_records + 1
                                         /\ UNCHANGED <<total_processed, records, origin,
                                                        valid_records, fk_violations>>
                        ELSE UNCHANGED <<handed, total_processed, records, origin,
                                         valid_records, fk_violations, malformed_records>>
                     /\ current_record_lines' = <<line>>
                ELSE /\ IF current_record_lines # <<>>
                        THEN current_record_lines' = Append(current_record_lines, line)
                        ELSE UNCHANGED current_record_lines
                     /\ UNCHANGED <<handed, total_processed, records, origin,
                                    valid_records, fk_violations, malformed_records>>
    /\ UNCHANGED <<prog, max_records, valid_llm_ids, processed, written, pc, broke>>
    /\ UNCHANGED notSegVars

\* The final record without total_processed += 1 when its foreign key is
\* not among the valid ids.
CompFinal_violation_not_processed ==
    /\ prog = "fix_competitor_csv"
    /\ pc = "loop"
    /\ IF current_record_lines # <<>>
       THEN LET record == parse_competitor_record(current_record_lines)
            IN  /\ handed' = Append(handed,
                       [start |-> OpenStart(Seen), lines |-> current_record_lines])
                /\ IF IsRecord14(record)
                   THEN IF ForeignKeyOk(record[3])
                        THEN /\ total_processed' = total_processed + 1
                             /\ records' = Append(records, record)
                             /\ origin' = Append(origin, OpenStart(Seen))
                             /\ valid_records' = valid_records + 1
                             /\ UNCHANGED fk_violations
                        ELSE /\ fk_violations' = fk_violations + 1
                             /\ UNCHANGED <<total_processed, records, origin, valid_records>>
                   ELSE UNCHANGED <<total_processed, records, origin, valid_records,
                                    fk_violations>>
       ELSE UNCHANGED <<handed, total_processed, records, origin, valid_records,
                        fk_violations>>
    /\ pc' = "write"
    /\ UNCHANGED <<prog, lines, max_records, valid_llm_ids, current_record_lines,
                   processed, malformed_records, written, broke>>
    /\ UNCHANGED notSegVars

\* Process final record, at the end of the input.
CompFinal ==
    /\ prog = "fix_competitor_csv"
    /\ pc = "loop"
    /\ IF current_record_lines # <<>>
       THEN LET record == parse_competitor_record(current_record_lines)
            IN  /\ handed' = Append(handed,
                       [start |-> OpenStart(Seen), lines |-> current_record_lines])
                /\ IF IsRecord14(record)
                   THEN /\ total_processed' = total_processed + 1
                        /\ IF ForeignKeyOk(record[3])
                           THEN /\ records' = Append(records, record)
                                /\ origin' = Append(origin, OpenStart(Seen))
                                /\ valid_records' = valid_records + 1
                                /\ UNCHANGED fk_violations
                           ELSE /\ fk_violations' = fk_violations + 1
                                /\ UNCHANGED <<records, origin, valid_records>>
                   ELSE UNCHANGED <<total_processed, records, origin, valid_records,
                                    fk_violations>>
       ELSE UNCHANGED <<handed, total_processed, records, origin, valid_records,
                        fk_violations>>
    /\ pc' = "write"
    /\ UNCHANGED <<prog, lines, max_records, valid_llm_ids, current_record_lines,
                   processed, malformed_records, written, broke>>
    /\ UNCHANGED notSegVars

\* Write clean CSV, then the validation report.  The report line
\* "Success rate" divides by total_processed: with total_processed = 0 the
\* division raises and the function is left by the exception.
CompWrite ==
    /\ prog = "fix_competitor_csv"
    /\ pc = "write"
    /\ written' = records
    /\ pc' = IF total_processed = 0 THEN "raised" ELSE "done"
    /\ UNCHANGED <<prog, lines, max_records, valid_llm_ids, records,
                   current_record_lines, processed, total_processed, valid_records,
                   fk_violations, malformed_records, broke, handed, origin>>
    /\ UNCHANGED notSegVars

(***************************************************************************)
(* fix_competitor_csv_final                                                *)
(***************************************************************************)
\* The NUL character.
Nul == "NUL"

\* re.sub(r'\s+', ' ', s): every run of whitespace becomes one space.
collapse_whitespace(s) ==
    LET marked == [i \in 1..Len(s) |->
                      [c |-> IF s[i] \in Whitespace THEN " " ELSE s[i],
                       drop |-> i > 1 /\ s[i] \in Whitespace /\ s[i - 1] \in Whitespace]]
        kept == SelectSeq(marked, LAMBDA m : ~m.drop)
    IN  [i \in 1..Len(kept) |-> kept[i].c]

\* s.replace(c, '')
remove_char(s, c) == SelectSeq(s, LAMBDA x : x # c)

\* s.replace(c, d) for single characters
replace_char(s, c, d) == [i \in 1..Len(s) |-> IF s[i] = c THEN d ELSE s[i]]

\* cleaned_field = re.sub(r'\s+', ' ', field.strip())
\* cleaned_field.replace('\x00', '').replace('\r', '').replace('\n', ' ')
cleaned_field_of(field) ==
    replace_char(remove_char(remove_char(collapse_whitespace(StripWs(field)), Nul), "\r"),
                 "\n", " ")

cleaned_record_of(record) == [k \in 1..Len(record) |-> cleaned_field_of(record[k])]

\* One iteration of the loop.
CompFinalLoopLine ==
    /\ prog = "fix_competitor_csv_final"
    /\ pc = "loop"
    /\ Len(lines) < MaxLines
    /\ \E raw \in InputLines(prog) :
         LET line == RStrip(raw, LineEnd)
         IN  /\ lines' = Append(lines, raw)
             /\ IF uuid_pattern(line)
                THEN /\ IF current_record_lines # <<>>
                        THEN LET record == parse_competitor_record_robust(current_record_lines)
                             IN  /\ handed' = Append(handed,
                                        [start |-> OpenStart(Seen),
                                         lines |-> current_record_lines])
                                 /\ IF IsRecord14(record)
                                    THEN /\ total_processed' = total_processed + 1
                                         /\ IF ForeignKeyOk(record[3])
                                            THEN /\ records' = Append(records, record)
                                                 /\ origin' = Append(origin, OpenStart(Seen))
                                                 /\ valid_records' = valid_records + 1
                                                 /\ UNCHANGED fk_violations
                                            ELSE /\ fk_violations' = fk_violations + 1
                                                 /\ UNCHANGED <<records, origin, valid_records>>
                                    ELSE UNCHANGED <<total_processed, records, origin,
                                                     valid_records, fk_violations>>
                        ELSE UNCHANGED <<handed, total_processed, records, origin,
                                         valid_records, fk_violations>>
                     /\ current_record_lines' = <<line>>
                ELSE /\ IF current_record_lines # <<>>
                        THEN current_record_lines' = Append(current_record_lines, line)
                        ELSE UNCHANGED current_record_lines
                     /\ UNCHANGED <<handed, total_processed, records, origin,
                                    valid_records, fk_violations>>
    /\ UNCHANGED <<prog, max_records, valid_llm_ids, processed, malformed_records,
                   written, pc, broke>>
    /\ UNCHANGED notSegVars

\* Process final record, at the end of the input.
CompFinalFinal ==
    /\ prog = "fix_competitor_csv_final"
    /\ pc = "loop"
    /\ IF current_record_lines # <<>>
       THEN LET record == parse_competitor_record_robust(current_record_lines)
            IN  /\ handed' = Append(handed,
                       [start |-> OpenStart(Seen), lines |-> current_record_lines])
                /\ IF IsRecord14(record)
                   THEN /\ total_processed' = total_processed + 1
                        /\ IF ForeignKeyOk(record[3])
                           THEN /\ records' = Append(records, record)
                                /\ origin' = Append(origin, OpenStart(Seen))
                                /\ valid_records' = valid_records + 1
                                /\ UNCHANGED fk_violations
                           ELSE /\ fk_violations' = fk_violations + 1
                                /\ UNCHANGED <<records, origin, valid_records>>
                   ELSE UNCHANGED <<total_processed, records, origin, valid_records,
                                    fk_violations>>
       ELSE UNCHANGED <<handed, total_processed, records, origin, valid_records,
                        fk_violations>>
    /\ pc' = "write"
    /\ UNCHANGED <<prog, lines, max_records, valid_llm_ids, current_record_lines,
                   processed, malformed_records, written, broke>>
    /\ UNCHANGED notSegVars

\* Write every record after cleaning each of its fields; return valid_records.
CompFinalWrite ==
    /\ prog = "fix_competitor_csv_final"
    /\ pc = "write"
    /\ written' = [k \in 1..Len(records) |-> cleaned_record_of(records[k])]
    /\ pc' = "done"
    /\ UNCHANGED <<prog, lines, max_records, valid_llm_ids, records,
                   current_record_lines, processed, total_processed, valid_records,
                   fk_violations, malformed_records, broke, handed, origin>>
    /\ UNCHANGED notSegVars

SegNext ==
    \/ OpenInput \/ CleanMain \/ CompMain
    \/ CleanLoopLine \/ CleanLoopBreak \/ CleanFinal \/ CleanWrite
    \/ CompLoopLine \/ CompFinal \/ CompWrite
    \/ CompFinalLoopLine \/ CompFinalFinal \/ CompFinalWrite

(***************************************************************************)
(* csv.reader with the default dialect (delimiter ',', quotechar '"',      *)
(* doublequote, not strict).  The reader is a state machine over the       *)
(* characters (START_RECORD, START_FIELD, IN_FIELD, IN_QUOTED_FIELD,       *)
(* QUOTE_IN_QUOTED_FIELD, EAT_CRNL); below, what it does to one field at   *)
(* a time.  Positions are 1-based.                                         *)
(***************************************************************************)
\* field_size_limit() of the csv module
CsvFieldLimit == 128 * 1024

\* IN_FIELD: the field ends at the next delimiter or line end, a quote is
\* an ordinary character.  The position of that character, Len(text) + 1
\* when the text ends first.
csv_field_end(text, p) ==
    CHOOSE j \in p..(Len(text) + 1) :
        /\ (j = Len(text) + 1 \/ text[j] \in {",", "\n", "\r"})
        /\ \A i \in p..(j - 1) : text[i] \notin {",", "\n", "\r"}

\* First position of the maximal run of quotes that position i is in,
\* inside a quoted field opened at p.
csv_run_start(text, p, i) ==
    LET before == LastKeep(text, Quote, i)
    IN  IF before < p THEN p + 1 ELSE before + 1

\* IN_QUOTED_FIELD / QUOTE_IN_QUOTED_FIELD: a doubled quote is one quote of
\* the field, so the quote that closes the field opened at p is the last
\* one of the first run of quotes of odd length; 0 when there is none.
csv_closing_quote(text, p) ==
    LET odd_runs == {q \in (p + 1)..Len(text) :
                        /\ text[q] = "\""
                        /\ csv_run_start(text, p, q) = q
                        /\ (FirstKeep(text, Quote, q) - q) % 2 = 1}
    IN  IF odd_runs = {} THEN 0
        ELSE FirstKeep(text, Quote, CHOOSE q \in odd_runs : \A r \in odd_runs : q <= r) - 1

\* The characters lo..hi of a quoted field opened at p, one quote kept of
\* every doubled quote.
csv_unquoted(text, p, lo, hi) ==
    LET marked == [k \in 1..(hi - lo + 1) |->
                      [c |-> text[lo + k - 1],
                       keep |-> \/ text[lo + k - 1] # "\""
                                \/ (lo + k - 1 - csv_run_start(text, p, lo + k - 1)) % 2 = 1]]
        kept == SelectSeq(marked, LAMBDA m : m.keep)
    IN  [k \in 1..Len(kept) |-> kept[k].c]

\* EAT_CRNL after the line end at position d: only line ends may follow on
\* the same line.  StringIO cuts the text into lines after every '\n', a
\* list element is one line whatever it holds.
csv_eat_crnl_ok(text, d, as_list) ==
    IF as_list THEN \A i \in (d + 1)..Len(text) : text[i] \in LineEnd
    ELSE \/ text[d] = "\n"
         \/ LET e == FirstKeep(text, {"\r"}, d + 1)
            IN  e = Len(text) + 1 \/ text[e] = "\n"

\* The field that starts at position p: its value and the position of the
\* character that ends it (Len(text) + 1: the end of the text).
csv_field_at(text, p) ==
    IF p <= Len(text) /\ text[p] = "\""
    THEN LET close == csv_closing_quote(text, p)
         IN  IF close = 0
             THEN [value |-> csv_unquoted(text, p, p + 1, Len(text)), end |-> Len(text) + 1]
             ELSE LET d == csv_field_end(text, close + 1)
                  IN  [value |-> csv_unquoted(text, p, p + 1, close - 1)
                                    \o SubSeq(text, close + 1, d - 1),
                       end |-> d]
    ELSE LET d == csv_field_end(text, p)
         IN  [value |-> SubSeq(text, p, d - 1), end |-> d]

\* The row the reader makes of a non-empty text, and whether it raises
\* csv.Error.
csv_row_of(text, as_list) ==
    LET n == Len(text)
        \* the fields from START_FIELD at position p on
        rest[p \in 1..(n + 1)] ==
            The({ IF Len(f.value) > CsvFieldLimit THEN [error |-> TRUE, row |-> <<>>]
                  ELSE IF f.end = n + 1 THEN [error |-> FALSE, row |-> <<f.value>>]
                  ELSE IF text[f.end] = ","
                  THEN The({ [error |-> more.error, row |-> <<f.value>> \o more.row] :
                             more \in {rest[f.end + 1]} })
                  ELSE [error |-> ~csv_eat_crnl_ok(text, f.end, as_list),
                        row |-> <<f.value>>] :
                  f \in {csv_field_at(text, p)} })
    IN  IF text[1] \in LineEnd     \* START_RECORD
        THEN [error |-> ~csv_eat_crnl_ok(text, 1, as_list), row |-> <<>>]
        ELSE rest[1]

\* next(csv.reader(source)) where source yields the lines of text: the row,
\* or the exception raised.  as_list tells the one-element list [text]
\* from StringIO(text), which yields nothing for an empty text.
csv_first_row(text, as_list) ==
    The({ IF t = <<>>
          THEN (IF as_list THEN [kind |-> "row", row |-> <<>>]
                ELSE [kind |-> "StopIteration", row |-> <<>>])
          ELSE The({ IF parsed.error THEN [kind |-> "csv.Error", row |-> <<>>]
                     ELSE [kind |-> "row", row |-> parsed.row] :
                     parsed \in {csv_row_of(t, as_list)} }) :
          t \in {text} })

(***************************************************************************)
(* fix_llm_csv.py: LLMCSVCleaner.                                          *)
(***************************************************************************)
HexAny == HexLower \cup {"A", "B", "C", "D", "E", "F"}

\* s.replace(sub, ''): the occurrences of sub, left to right, cut out of
\* the part of s from 0-based position p on.
RECURSIVE remove_sub_from(_, _, _)
remove_sub_from(s, sub, p) ==
    LET q == FindFrom(s, sub, p)
    IN  IF q = -1 THEN Slice(s, p, Len(s))
        ELSE Slice(s, p, q) \o remove_sub_from(s, sub, q + Len(sub))

remove_sub(s, sub) == remove_sub_from(s, sub, 0)

\* s.replace(c, rep) for a character c and a string rep
RECURSIVE replace_with(_, _, _, _, _)
replace_with(s, c, rep, lo, hi) ==
    IF lo > hi THEN <<>>
    ELSE IF lo = hi THEN (IF s[lo] = c THEN rep ELSE <<s[lo]>>)
    ELSE LET mid == (lo + hi) \div 2
         IN  replace_with(s, c, rep, lo, mid) \o replace_with(s, c, rep, mid + 1, hi)

replace_str(s, c, rep) == The({ replace_with(v, c, rep, 1, Len(v)) : v \in {s} })

\* int(s, base) without the blanks around, the sign and, for base 16,
\* the 0x prefix
int_digits(s, base) ==
    LET t == StripWs(s)
        u == IF t # <<>> /\ t[1] \in {"+", "-"} THEN Tail(t) ELSE t
        prefixed == base = 16 /\ Len(u) >= 2 /\ u[1] = "0" /\ u[2] \in {"x", "X"}
    IN  [prefixed |-> prefixed, digits |-> IF prefixed THEN SubSeq(u, 3, Len(u)) ELSE u]

\* Whether int(s, base) accepts s: blanks around, a sign, for base 16 a 0x
\* prefix, then digits with single underscores between them.
int_accepts(s, base) ==
    \E d \in {int_digits(s, base)} :
        LET v == d.digits
            digits == IF base = 16 THEN HexAny ELSE Digits
        IN  /\ v # <<>>
            /\ \A i \in 1..Len(v) : v[i] \in digits \cup {"_"}
            /\ v[Len(v)] # "_"
            /\ (v[1] # "_" \/ d.prefixed)
            /\ \A i \in 1..(Len(v) - 1) : ~(v[i] = "_" /\ v[i + 1] = "_")

DigitValue ==
    ("0" :> 0) @@ ("1" :> 1) @@ ("2" :> 2) @@ ("3" :> 3) @@ ("4" :> 4) @@
    ("5" :> 5) @@ ("6" :> 6) @@ ("7" :> 7) @@ ("8" :> 8) @@ ("9" :> 9)

\* The number the first k characters of a string of decimal digits denote.
RECURSIVE decimal_prefix(_, _)
decimal_prefix(d, k) ==
    IF k = 0 THEN 0 ELSE 10 * decimal_prefix(d, k - 1) + DigitValue[d[k]]

decimal_value(d) == The({ decimal_prefix(v, Len(v)) : v \in {d} })

RECURSIVE power_of_ten(_)
power_of_ten(n) == IF n = 0 THEN 1 ELSE 10 * power_of_ten(n - 1)

\* int(s) where int_accepts(s, 10)
int_value(s) ==
    LET t == StripWs(s)
        magnitude == decimal_value(SelectSeq(t, LAMBDA c : c \in Digits))
    IN  IF t[1] = "-" THEN 0 - magnitude ELSE magnitude

UpperLetters ==
    <<"A", "B", "C", "D", "E", "F", "G", "H", "I", "J", "K", "L", "M",
      "N", "O", "P", "Q", "R", "S", "T", "U", "V", "W", "X", "Y", "Z">>

LowerLetters ==
    <<"a", "b", "c", "d", "e", "f", "g", "h", "i", "j", "k", "l", "m",
      "n", "o", "p", "q", "r", "s", "t", "u", "v", "w", "x", "y", "z">>

\* s.lower()
lower(s) ==
    [i \in 1..Len(s) |->
        IF \E k \in 1..26 : UpperLetters[k] = s[i]
        THEN LowerLetters[CHOOSE k \in 1..26 : UpperLetters[k] = s[i]]
        ELSE s[i]]

Inf == <<"i", "n", "f">>

Infinity == <<"i", "n", "f", "i", "n", "i", "t", "y">>

NaN == <<"n", "a", "n">>

\* float(s) for the literals  [sign] digits [. digits] | [sign] . digits |
\* [sign] digits . | [sign] inf | infinity | nan  with blanks around: the
\* value as sign, numerator and denominator, or ValueError.  Exponents and
\* digit-group underscores are not among the inputs of this model and are
\* reported as ValueError.
float_of(s) ==
    The({ LET negative == t # <<>> /\ t[1] = "-"
              u == IF t # <<>> /\ t[1] \in {"+", "-"} THEN Tail(t) ELSE t
              dot == Find(u, <<".">>)
              whole == IF dot = -1 THEN u ELSE Slice(u, 0, dot)
              frac == IF dot = -1 THEN <<>> ELSE Slice(u, dot + 1, Len(u))
              digits_only(d) == \A i \in 1..Len(d) : d[i] \in Digits
          IN  IF lower(u) = NaN THEN [kind |-> "nan"]
              ELSE IF lower(u) \in {Inf, Infinity}
              THEN [kind |-> "inf", negative |-> negative]
              ELSE IF digits_only(whole) /\ digits_only(frac) /\ whole \o frac # <<>>
              THEN [kind |-> "number", negative |-> negative,
                    num |-> decimal_value(whole \o frac), den |-> power_of_ten(Len(frac))]
              ELSE [kind |-> "ValueError"] :
          t \in {StripWs(s)} })

\* The range test left out: every number passes.
float_between_unbounded(x, lo, hi) == x.kind = "number"

\* lo <= x <= hi for a parsed float x and integers lo, hi; nan compares
\* false with everything.
float_between(x, lo, hi) ==
    /\ x.kind = "number"
    /\ LET signed == IF x.negative THEN 0 - x.num ELSE x.num
       IN  lo * x.den <= signed /\ signed <= hi * x.den

UrnPrefix == <<"u", "r", "n", ":">>

UuidPrefix == <<"u", "u", "i", "d", ":">>

\* uuid.UUID(hex) does not raise ValueError
uuid_UUID_accepts(hex) ==
    \E bare \in {remove_char(Strip(remove_sub(remove_sub(hex, UrnPrefix), UuidPrefix),
                                    {"{", "}"}), "-")} :
        Len(bare) = 32 /\ int_accepts(bare, 16)

is_valid_uuid(value) ==
    IF value = <<>> \/ StripWs(value) = <<>> THEN FALSE
    ELSE uuid_UUID_accepts(StripWs(value))

TextCap == 50000

Truncated == <<".", ".", ".", " ", "[", "T", "R", "U", "N", "C", "A", "T", "E", "D", "]">>

\* The cap applied to the text as it was passed, before the escaping.
clean_text_field_capped_first(text) ==
    IF text = <<>> THEN <<>>
    ELSE LET capped == IF Len(text) > TextCap
                       THEN Slice(text, 0, TextCap) \o Truncated ELSE text
             no_nul == remove_char(capped, Nul)
             no_lf == replace_str(no_nul, "\n", <<"\\", "n">>)
             no_cr == replace_str(no_lf, "\r", <<"\\", "r">>)
         IN  replace_str(no_cr, "\"", <<"\"", "\"">>)

clean_text_field(text) ==
    IF text = <<>> THEN <<>>
    ELSE LET no_nul == remove_char(text, Nul)
             no_lf == replace_str(no_nul, "\n", <<"\\", "n">>)
             no_cr == replace_str(no_lf, "\r", <<"\\", "r">>)
             escaped == replace_str(no_cr, "\"", <<"\"", "\"">>)
         IN  IF Len(escaped) > TextCap
             THEN Slice(escaped, 0, TextCap) \o Truncated
             ELSE escaped

Claude == <<"c", "l", "a", "u", "d", "e">>

Gemini == <<"g", "e", "m", "i", "n", "i">>

Perplexity == <<"p", "e", "r", "p", "l", "e", "x", "i", "t", "y">>

Gpt4 == <<"g", "p", "t", "-", "4">>

Claude3 == <<"c", "l", "a", "u", "d", "e", "-", "3">>

valid_llm_providers == {Chatgpt, Claude, Gemini, Perplexity, Gpt4, Claude3}

expected_columns ==
    <<<<"i", "d">>,
      <<"p", "r", "o", "m", "p", "t", "_", "i", "d">>,
      <<"l", "l", "m", "_", "p", "r", "o", "v", "i", "d", "e", "r">>,
      <<"w", "e", "b", "s", "i", "t", "e", "_", "i", "d">>,
      <<"i", "s", "_", "m", "e", "n", "t", "i", "o", "n", "e", "d">>,
      <<"r", "a", "n", "k", "_", "p", "o", "s", "i", "t", "i", "o", "n">>,
      <<"s", "e", "n", "t", "i", "m", "e", "n", "t", "_", "s", "c", "o", "r", "e">>,
      <<"c", "o", "n", "f", "i", "d", "e", "n", "c", "e", "_", "s", "c", "o", "r", "e">>,
      <<"r", "e", "s", "p", "o", "n", "s", "e", "_", "t", "e", "x", "t">>,
      <<"s", "u", "m", "m", "a", "r", "y", "_", "t", "e", "x", "t">>,
      <<"a", "n", "a", "l", "y", "z", "e", "d", "_", "a", "t">>,
      <<"c", "r", "e", "a", "t", "e", "d", "_", "a", "t">>,
      <<"a", "n", "a", "l", "y", "s", "i", "s", "_", "s", "e", "s", "s", "i", "o", "n", "_", "i", "d">>>>

\* The values is_mentioned may hold without a warning.
BooleanWords ==
    {True, False, <<"t">>, <<"f">>, <<"1">>, <<"0">>, <<>>}

\* The hard error and the warning a numeric column adds: parsed is the
\* outcome of int() or float(), in_range whether the constraint holds.
numeric_errors(field, raises, in_range, name) ==
    IF field = <<>> \/ StripWs(field) = <<>> \/ raises \/ in_range THEN <<>> ELSE <<name>>

numeric_warnings(field, raises, name) ==
    IF field # <<>> /\ StripWs(field) # <<>> /\ raises THEN <<name>> ELSE <<>>

RequiredUuids == <<1, 2, 4>>

RequiredUuidNames == <<"id", "prompt_id", "website_id">>

\* validate_row: is_valid as the checks assign it, and the errors and
\* warnings by the column they are about, in the order they are appended.
validate_row(row) ==
    IF Len(row) # Len(expected_columns)
    THEN [is_valid |-> FALSE, errors |-> <<"column_count">>, warnings |-> <<>>]
    ELSE LET bad_uuid(k) == ~is_valid_uuid(row[RequiredUuids[k]])
             uuid_errors == SelectSeq(RequiredUuidNames,
                                      LAMBDA e : \E k \in 1..3 :
                                          RequiredUuidNames[k] = e /\ bad_uuid(k))
             session_warnings == IF row[13] # <<>> /\ ~is_valid_uuid(row[13])
                                 THEN <<"analysis_session_id">> ELSE <<>>
             bad_provider == row[3] \notin valid_llm_providers
             boolean_warnings == IF StripWs(lower(row[5])) \notin BooleanWords
                                 THEN <<"is_mentioned">> ELSE <<>>
             rank_raises == ~int_accepts(row[6], 10)
             rank_ok == ~rank_raises /\ int_value(row[6]) >= -1
             sentiment == float_of(row[7])
             confidence == float_of(row[8])
             rank_errors == numeric_errors(row[6], rank_raises, rank_ok, "rank_position")
             sentiment_errors ==
                 numeric_errors(row[7], sentiment.kind = "ValueError",
                                float_between(sentiment, -1, 1), "sentiment_score")
             confidence_errors ==
                 numeric_errors(row[8], confidence.kind = "ValueError",
                                float_between(confidence, 0, 1), "confidence_score")
         IN  [is_valid |-> /\ \A k \in 1..3 : ~bad_uuid(k)
                           /\ ~bad_provider
                           /\ rank_errors = <<>>
                           /\ sentiment_errors = <<>>
                           /\ confidence_errors = <<>>,
              errors |-> uuid_errors
                           \o (IF bad_provider THEN <<"llm_provider">> ELSE <<>>)
                           \o rank_errors \o sentiment_errors \o confidence_errors,
              warnings |-> session_warnings \o boolean_warnings
                           \o numeric_warnings(row[6], rank_raises, "rank_position")
                           \o numeric_warnings(row[7], sentiment.kind = "ValueError",
                                               "sentiment_score")
                           \o numeric_warnings(row[8], confidence.kind = "ValueError",
                                               "confidence_score")]

(***************************************************************************)
(* Field cleaning: clean_text_field of fix_llm_csv.py and the cleaning     *)
(* fix_competitor_csv_final.py applies to every field it writes, called on *)
(* the same field values: every text of at most MaxTextLen characters      *)
(* over TextChars, and long texts around the cap of clean_text_field.      *)
(***************************************************************************)
\* Largest length of the short field values.
MaxTextLen == 5

TextChars == {"a", " ", "\n", "\r", Nul, "\""}

Repeat(c, n) == [i \in 1..n |-> c]

\* Texts of TextCap and TextCap + 1 characters, with and without
\* characters the cleaning removes or escapes.
LongTexts ==
    {Repeat("x", TextCap), Repeat("x", TextCap + 1), Repeat(Nul, TextCap + 1),
     Repeat("\"", TextCap \div 2 + 1), Repeat("x", TextCap - 1) \o <<"\"">>,
     Repeat("x", TextCap) \o <<Nul>>}

Texts == UNION {[1..n -> TextChars] : n \in 0..MaxTextLen} \cup LongTexts

TextInit ==
    /\ arg_text \in Texts
    /\ ret_text = <<>>
    /\ tpc = "call"

\* row[8] = self.clean_text_field(row[8])
CallCleanTextField ==
    /\ tpc = "call"
    /\ ret_text' = clean_text_field(arg_text)
    /\ tpc' = "clean_text_field"
    /\ UNCHANGED arg_text
    /\ UNCHANGED notTextVars

\* cleaned_field = ... of fix_competitor_csv_final, for one field
CallCleanedField ==
    /\ tpc = "call"
    /\ ret_text' = cleaned_field_of(arg_text)
    /\ tpc' = "cleaned_field"
    /\ UNCHANGED arg_text
    /\ UNCHANGED notTextVars

TextNext == CallCleanTextField \/ CallCleanedField

(***************************************************************************)
(* Calls of validate_row.  The rows are built from column values that      *)
(* pass every check and values that fail one: a text that is no UUID, a    *)
(* provider outside the allowed set, a word that is no boolean, integers   *)
(* on both sides of -1, numbers on both sides of the score ranges, nan,    *)
(* and texts that are no numbers.                                          *)
(***************************************************************************)
Maybe == <<"m", "a", "y", "b", "e">>

RankNeg1 == <<"-", "1">>

RankNeg2 == <<"-", "2">>

Score150 == <<"1", ".", "5">>

ScoreNeg150 == <<"-", "1", ".", "5">>

NotANumber == <<"n", "/", "a">>

Blank == <<" ">>

ValidateRows ==
    { <<id, UuidB, provider, UuidA, mentioned, rank, sentiment, confidence,
        Hello, World, TsA, TsA, sid>> :
        id \in {UuidA, Pid, <<>>},
        provider \in {Chatgpt, Pid},
        mentioned \in {True, Maybe},
        rank \in {Rank1, RankNeg1, RankNeg2, NotANumber, Blank},
        sentiment \in {Score050, ScoreNeg150, NaN, NotANumber},
        confidence \in {Score090, ScoreNeg020, Score150, NotANumber},
        sid \in {<<>>, UuidB, Pid} }
    \cup {<<UuidA, UuidB, Chatgpt>>, <<>>}

\* validation = {'is_valid': True, 'errors': [], 'warnings': []}
ValidateInit ==
    /\ arg_row \in ValidateRows
    /\ ret_validation = [is_valid |-> TRUE, errors |-> <<>>, warnings |-> <<>>]
    /\ vpc = "call"

\* validation = self.validate_row(row)
CallValidateRow ==
    /\ vpc = "call"
    /\ ret_validation' = validate_row(arg_row)
    /\ vpc' = "returned"
    /\ UNCHANGED arg_row
    /\ UNCHANGED notValidateVars

ValidateNext == CallValidateRow

\* re.match(r'\d{4}-\d{2}-\d{2}', part)
DateLen == 10

date_match(part) ==
    /\ Len(part) >= DateLen
    /\ \A j \in 1..DateLen :
          IF j \in DOMAIN TsSeparators THEN part[j] = TsSeparators[j]
          ELSE part[j] \in Digits

\* fix_malformed_csv_line: the 13 reconstructed columns, or None
fix_malformed_csv_line(line) ==
    LET parts == Split(line, ",")
        n == Len(parts)
        \* 0-based indices i of range(9, len(parts)) with room left for the
        \* last three columns and a date at the start of parts[i]
        dated == {i \in 9..(n - 1) : i < n - 2 /\ date_match(parts[i + 1])}
        summary_start == IF dated = {} THEN n - 4
                         ELSE (CHOOSE i \in dated : \A j \in dated : i <= j) - 1
        leading == [k \in 1..8 |-> StripWs(parts[k])]
        response_text == StripWs(Join(Slice(parts, 8, summary_start), <<",">>))
        summary_text == StripWs(parts[summary_start + 1])
        trailing == [k \in 1..3 |-> StripWs(parts[n - 3 + k])]
    IN  IF n < 13 THEN None
        ELSE Slice(leading \o <<response_text, summary_text>> \o trailing, 0, 13)

\* csv.writer(outfile, quoting=csv.QUOTE_ALL).writerow(row): the line
\* added to the file.
writerow(row) ==
    Join([k \in 1..Len(row) |-> InQuotes(replace_str(row[k], "\"", <<"\"", "\"">>))],
         <<",">>) \o <<"\r", "\n">>

\* row[8] = clean_text_field(row[8]); row[9] = clean_text_field(row[9])
with_clean_text(row) ==
    [row EXCEPT ![9] = clean_text_field(@), ![10] = clean_text_field(@)]

\* A complete row that validate_row accepts.
GoodRowA ==
    Csv(<<UuidA, UuidB, Chatgpt, UuidA, True, Rank1, Score050, Score090,
          HelloQuoted, WorldQuoted, TsA, TsA, <<>>>>)

GoodRowB ==
    Csv(<<UuidB, UuidA, Claude, UuidB, False, Rank1, ScoreNeg020, Score050,
          Hello, <<>>, TsA, TsB, UuidB>>)

\* GoodRowA broken inside "hello": its first physical line.
GoodHead == Csv(<<UuidA, UuidB, Chatgpt, UuidA, True, Rank1, Score050, Score090, HelOpen>>)

\* A complete row that passes every check but the one of the optional
\* analysis_session_id, which is "pid".
BadSessionRow ==
    Csv(<<UuidB, UuidA, Gemini, UuidB, True, Rank1, Score050, Score090,
          HelloQuoted, WorldQuoted, TsA, TsB, Pid>>)

ExpectedHeader == Csv(expected_columns)

\* The data lines of the exported file: complete rows (ScenarioLine has
\* 13 columns but no UUID as prompt_id and website_id), the two halves of
\* a broken row, and lines with one and with three columns.
LLMLines == {GoodRowA, GoodRowB, BadSessionRow, ScenarioLine, GoodHead, ScenarioTail,
             JunkLine, ShortAnchorLine}

\* A text one character longer than the field limit of the csv reader.
LongText == [i \in 1..(CsvFieldLimit + 1) |-> "x"]

\* The scenario line (13 columns, no UUID as prompt_id and website_id) with
\* LongText as response_text: the csv reader raises csv.Error on it.
LongScenarioLine ==
    Csv(<<UuidA, Pid, Chatgpt, Wid, True, Rank1, Score050, Score090,
          LongText, WorldQuoted, TsA, TsA, <<>>>>)

HeaderLines == {ExpectedHeader, JunkLine}

\* The length check made on the field limit of the csv reader.
RowTooLong_as_field_limit == CsvFieldLimit

RowTooLong == 100000

\* One-column lines of exactly RowTooLong characters and of one more: a
\* run of x closed by a double quote.
FullJunkLine == [i \in 1..RowTooLong |-> IF i = RowTooLong THEN "\"" ELSE "x"]

OverlongJunkLine == <<"x">> \o FullJunkLine

\* The lines tried as the k-th data line; the long lines are tried as the
\* first one only.
LLMLinesAt(k) ==
    IF k = 1 THEN LLMLines \cup {LongScenarioLine, FullJunkLine, OverlongJunkLine}
    ELSE LLMLines

LLMInit ==
    /\ header_line = <<>>
    /\ infile = <<>>
    /\ current_line = <<>>
    /\ outfile = <<>>
    /\ stats = [total_rows |-> 0, processed_rows |-> 0, malformed_rows |-> 0,
                fixed_rows |-> 0, skipped_rows |-> 0, constraint_violations |-> 0]
    /\ lpc = "open"
    /\ validated = <<>>

\* header_line = infile.readline().strip(); writer.writerow(self.expected_columns)
ReadHeader ==
    /\ lpc = "open"
    /\ \E raw \in {h \o Eol : h \in HeaderLines} :
          header_line' = StripWs(raw)
    /\ outfile' = <<writerow(expected_columns)>>
    /\ lpc' = "loop"
    /\ UNCHANGED <<infile, current_line, stats, validated>>
    /\ UNCHANGED notLLMVars

\* One iteration of "for line_num, line in enumerate(infile, start=2)".
ProcessLine ==
    /\ lpc = "loop"
    /\ Len(infile) < MaxLines
    /\ \E raw \in {l \o Eol : l \in LLMLinesAt(Len(infile) + 1)} :
       \E joined \in {current_line \o RStrip(raw, LineEnd)} :
       \E parsed \in {csv_first_row(joined, TRUE)} :
       \E counted \in {[stats EXCEPT !.total_rows = Len(infile) + 1]} :
          /\ infile' = Append(infile, raw)
          /\ IF parsed.kind = "row" /\ Len(parsed.row) = 13
             THEN /\ outfile' = Append(outfile, writerow(with_clean_text(parsed.row)))
                  /\ stats' = IF validate_row(parsed.row).is_valid
                              THEN [counted EXCEPT !.processed_rows = @ + 1]
                              ELSE [counted EXCEPT !.constraint_violations = @ + 1,
                                                   !.processed_rows = @ + 1]
                  /\ current_line' = <<>>
                  /\ validated' = Append(validated,
                         [path |-> "parsed", is_valid |-> validate_row(parsed.row).is_valid,
                          written |-> TRUE])
             ELSE IF parsed.kind = "row"
             THEN /\ outfile' = outfile
                  /\ validated' = validated
                  /\ IF Len(joined) > RowTooLong
                     THEN /\ stats' = [counted EXCEPT !.skipped_rows = @ + 1]
                          /\ current_line' = <<>>
                     ELSE /\ stats' = counted
                          /\ current_line' = joined
             ELSE \* except csv.Error
                  \E fixed_row \in {fix_malformed_csv_line(joined)} :
                      /\ current_line' = <<>>
                      /\ validated' =
                            IF fixed_row = None THEN validated
                            ELSE The({ Append(validated,
                                         [path |-> "repaired",
                                          is_valid |-> validation.is_valid,
                                          written |-> validation.is_valid
                                                        \/ Len(validation.errors) = 0]) :
                                       validation \in {validate_row(fixed_row)} })
                      /\ IF fixed_row # None
                            /\ \E validation \in {validate_row(fixed_row)} :
                                  validation.is_valid \/ Len(validation.errors) = 0
                         THEN /\ outfile' = Append(outfile,
                                                   writerow(with_clean_text(fixed_row)))
                              /\ stats' = [counted EXCEPT !.fixed_rows = @ + 1,
                                                          !.processed_rows = @ + 1]
                         ELSE /\ outfile' = outfile
                              /\ stats' = [counted EXCEPT !.skipped_rows = @ + 1]
    /\ UNCHANGED <<header_line, lpc>>
    /\ UNCHANGED notLLMVars

\* "Handle any remaining content" at the end of the input, then the
\* statistics and return True.
HandleRemaining ==
    /\ lpc = "loop"
    /\ \E parsed \in {csv_first_row(current_line, TRUE)} :
          IF StripWs(current_line) = <<>> THEN UNCHANGED <<outfile, stats, validated>>
          ELSE IF parsed.kind # "row"
          THEN /\ stats' = [stats EXCEPT !.skipped_rows = @ + 1]
               /\ UNCHANGED <<outfile, validated>>
          ELSE IF Len(parsed.row) = 13
          THEN /\ outfile' = Append(outfile, writerow(with_clean_text(parsed.row)))
               /\ stats' = [stats EXCEPT !.processed_rows = @ + 1]
               /\ validated' = Append(validated,
                      [path |-> "remaining", is_valid |-> validate_row(parsed.row).is_valid,
                       written |-> TRUE])
          ELSE UNCHANGED <<outfile, stats, validated>>
    /\ lpc' = "returned"
    /\ UNCHANGED <<header_line, infile, current_line>>
    /\ UNCHANGED notLLMVars

LLMNext == ReadHeader \/ ProcessLine \/ HandleRemaining

(***************************************************************************)
(* fix_csv.py: fix_csv_file.                                               *)
(***************************************************************************)
\* Sequences of at most n elements of S
SeqUpTo(S, n) == UNION {[1..k -> S] : k \in 0..n}

\* The lines after the header: complete rows, the two halves of a broken
\* row, an empty line and lines with one and with three columns.
FixLines == {GoodRowA, ScenarioLine, GoodHead, ScenarioTail, <<>>, JunkLine,
             ShortAnchorLine}

\* The text of the input file: a header and data lines, each line but
\* possibly the last ended by '\n'.
FixContents ==
    {Join(<<h>> \o ls, Eol) \o t :
        h \in HeaderLines, ls \in SeqUpTo(FixLines, MaxLines), t \in {<<>>, Eol}}

\* lines = content.split('\n')
content_lines == Split(content, "\n")

FixInit ==
    /\ content \in FixContents
    /\ line_index = 0
    /\ fixed_records = <<content_lines[1]>>
    /\ current_record = <<>>
    /\ record_count = 0
    /\ field_count = 0
    /\ fixed_file = <<>>
    /\ fpc = "loop"

\* One iteration of "for i, line in enumerate(lines[1:], 1)"; line_index
\* is the i of the last iteration.
FixLoopLine ==
    /\ fpc = "loop"
    /\ \E all_lines \in {content_lines} :
       \E i \in {line_index + 1} :
          /\ i <= Len(all_lines) - 1
          /\ \E joined \in {current_record \o all_lines[i + 1]} :
             \E parsed \in {csv_first_row(joined, FALSE)} :
                /\ line_index' = i
                /\ IF /\ parsed.kind = "row"
                      /\ Len(parsed.row) = 13
                      /\ uuid_exact(parsed.row[1])
                   THEN /\ fixed_records' = Append(fixed_records, joined)
                        /\ record_count' = record_count + 1
                        /\ current_record' = <<>>
                        /\ field_count' = 0
                   ELSE /\ field_count' = IF parsed.kind = "row" THEN Len(parsed.row)
                                          ELSE field_count
                        /\ current_record' = IF i < Len(all_lines) - 1
                                             THEN joined \o Eol ELSE joined
                        /\ UNCHANGED <<fixed_records, record_count>>
    /\ UNCHANGED <<content, fixed_file, fpc>>
    /\ UNCHANGED notFixVars

\* "Handle any remaining record" after the loop.
FixRemaining ==
    /\ fpc = "loop"
    /\ line_index = Len(content_lines) - 1
    /\ \E parsed \in {csv_first_row(current_record, FALSE)} :
          IF StripWs(current_record) # <<>> /\ parsed.kind = "row" /\ Len(parsed.row) = 13
          THEN /\ fixed_records' = Append(fixed_records, current_record)
               /\ record_count' = record_count + 1
          ELSE UNCHANGED <<fixed_records, record_count>>
    /\ fpc' = "write"
    /\ UNCHANGED <<content, line_index, current_record, field_count, fixed_file>>
    /\ UNCHANGED notFixVars

\* f.write(record.strip() + '\n') for every fixed record; return record_count
FixWrite ==
    /\ fpc = "write"
    /\ fixed_file' = [k \in 1..Len(fixed_records) |-> StripWs(fixed_records[k]) \o Eol]
    /\ fpc' = "returned"
    /\ UNCHANGED <<content, line_index, fixed_records, current_record, record_count,
                   field_count>>
    /\ UNCHANGED notFixVars

FixNext == FixLoopLine \/ FixRemaining \/ FixWrite

(***************************************************************************)
(* fix_csv_simple.py: fix_csv_simple, run twice.                           *)
(***************************************************************************)
\* A header line as it is in the file, and one with blanks around it.
SimpleHeaders == {<<"i", "d", ",", "x", "\n">>, <<" ", "i", "d", ",", "x", " ", "\n">>}

\* The data lines of the first input: anchor lines with a run of blanks
\* and with a tab at the end, a continuation line with blanks at both
\* ends, an empty line and a line that holds an id without a comma.
SimpleDataLines ==
    { UuidA \o <<",", "a", " ", " ", "b">>,
      UuidB \o <<",", "x", "\t">>,
      <<" ", " ", "y", "\t", " ", "z", " ">>,
      <<>>,
      UuidA }

\* f.readlines() of a text file: \r\n and \r are read as \n, and every
\* line keeps its \n; a last line without line end is a line too.
readlines(text) ==
    LET translated ==
            SelectSeq([k \in 1..Len(text) |->
                          IF text[k] = "\r"
                          THEN IF k < Len(text) /\ text[k + 1] = "\n" THEN "" ELSE "\n"
                          ELSE text[k]],
                      LAMBDA c : c # "")
        pieces == Split(translated, "\n")
        n == Len(pieces)
    IN  [k \in 1..(n - 1) |-> pieces[k] \o <<"\n">>]
          \o (IF pieces[n] = <<>> THEN <<>> ELSE <<pieces[n]>>)

\* for line in fixed_lines: f.write(line + '\n')
written_text(fixed_lines) ==
    IF fixed_lines = <<>> THEN <<>> ELSE Join(fixed_lines, <<"\n">>) \o <<"\n">>

\* One pass that halves every run of whitespace instead of collapsing it.
simple_cleaned_record_one_pass(record_text) ==
    LET s == StripWs(record_text)
        before(i) == Cardinality({j \in 1..(i - 1) : \A k \in j..i : s[k] \in Whitespace})
        marked == [i \in 1..Len(s) |->
                      [c |-> IF s[i] \in Whitespace THEN " " ELSE s[i],
                       drop |-> s[i] \in Whitespace /\ before(i) % 2 = 1]]
        kept == SelectSeq(marked, LAMBDA x : ~x.drop)
    IN  [i \in 1..Len(kept) |-> kept[i].c]

\* cleaned_record = re.sub(r'\s+', ' ', current_record.strip())
simple_cleaned_record(record_text) == collapse_whitespace(StripWs(record_text))

\* The state after "Keep header" of the first run; the data lines are
\* added to simple_lines as the loop reaches them.
SimpleInit ==
    /\ simple_run = 1
    /\ simple_lines \in {<<h>> : h \in SimpleHeaders}
    /\ simple_i = 1
    /\ simple_fixed_lines = <<StripWs(simple_lines[1])>>
    /\ simple_current_record = <<>>
    /\ simple_record_count = 0
    /\ simple_file = <<>>
    /\ simple_first = [file |-> <<>>, record_count |-> 0]
    /\ spc = "loop"

\* The data lines the next iteration can find.
SimpleNextLines ==
    IF simple_run = 1
    THEN IF simple_i - 1 < MaxLines THEN {l \o Eol : l \in SimpleDataLines} ELSE {}
    ELSE IF simple_i < Len(simple_lines) THEN {simple_lines[simple_i + 1]} ELSE {}

\* One iteration of the loop.
SimpleLoopLine ==
    /\ spc = "loop"
    /\ \E raw \in SimpleNextLines :
         LET line == RStrip(raw, LineEnd)
         IN  /\ simple_lines' = IF simple_run = 1 THEN Append(simple_lines, raw)
                                ELSE simple_lines
             /\ IF uuid_pattern(line)
                THEN /\ IF StripWs(simple_current_record) # <<>>
                        THEN /\ simple_fixed_lines' =
                                    Append(simple_fixed_lines,
                                           simple_cleaned_record(simple_current_record))
                             /\ simple_record_count' = simple_record_count + 1
                        ELSE UNCHANGED <<simple_fixed_lines, simple_record_count>>
                     /\ simple_current_record' = line
                ELSE /\ simple_current_record' =
                            IF simple_current_record # <<>>
                            THEN simple_current_record \o <<" ">> \o line
                            ELSE simple_current_record
                     /\ UNCHANGED <<simple_fixed_lines, simple_record_count>>
    /\ simple_i' = simple_i + 1
    /\ UNCHANGED <<simple_run, simple_file, simple_first, spc>>
    /\ UNCHANGED notSimpleVars

\* Handle final record, write the fixed lines, return record_count.  In
\* the first run the input ends wherever the loop stands.
SimpleFinal ==
    /\ spc = "loop"
    /\ simple_run = 2 => simple_i = Len(simple_lines)
    /\ \E final \in {IF StripWs(simple_current_record) # <<>>
                      THEN Append(simple_fixed_lines,
                                  simple_cleaned_record(simple_current_record))
                      ELSE simple_fixed_lines} :
          /\ simple_fixed_lines' = final
          /\ simple_file' = written_text(final)
    /\ simple_record_count' = IF StripWs(simple_current_record) # <<>>
                              THEN simple_record_count + 1
                              ELSE simple_record_count
    /\ spc' = "returned"
    /\ UNCHANGED <<simple_run, simple_lines, simple_i, simple_current_record,
                   simple_first>>
    /\ UNCHANGED notSimpleVars

\* The second call, on the output of the first: readlines and "Keep
\* header".
SimpleRunAgain ==
    /\ spc = "returned"
    /\ simple_run = 1
    /\ simple_first' = [file |-> simple_file, record_count |-> simple_record_count]
    /\ simple_run' = 2
    /\ \E ls \in {readlines(simple_file)} :
          /\ simple_lines' = ls
          /\ simple_fixed_lines' = <<StripWs(ls[1])>>
    /\ simple_i' = 1
    /\ simple_current_record' = <<>>
    /\ simple_record_count' = 0
    /\ simple_file' = <<>>
    /\ spc' = "loop"
    /\ UNCHANGED notSimpleVars

SimpleNext == SimpleLoopLine \/ SimpleFinal \/ SimpleRunAgain

vars ==
    <<resolverVars, segVars, llmVars, fixVars, validateVars, textVars, compVars,
      processVars, mainVars, anchorVars, simpleVars>>

SimpleIdle ==
    /\ simple_run = 0
    /\ simple_lines = <<>>
    /\ simple_i = 0
    /\ simple_fixed_lines = <<>>
    /\ simple_current_record = <<>>
    /\ simple_record_count = 0
    /\ simple_file = <<>>
    /\ simple_first = [file |-> <<>>, record_count |-> 0]
    /\ spc = "idle"

AnchorIdle ==
    /\ anchor_fields = <<>>
    /\ anchor_quoted = FALSE
    /\ arg_anchor_lines = <<>>
    /\ ret_anchor = None
    /\ apc = "idle"

ProcessIdle ==
    /\ ret_fields = None
    /\ ppc = "idle"

\* No process has ended and nothing was printed about an outcome.
MainInit ==
    /\ printed = "nothing"
    /\ exited = FALSE
    /\ exit_status = 0

\* The resolver check and the segmenting scripts do not run together: each
\* specification keeps the other's variables at their initial values.
ResolverIdle ==
    /\ columns = <<>>
    /\ quoted = FALSE
    /\ arg_lines = <<>>
    /\ ret_record = None
    /\ rpc = "idle"

SegIdle ==
    /\ prog = "none"
    /\ lines = <<>>
    /\ max_records = 0
    /\ valid_llm_ids = {}
    /\ records = <<>>
    /\ current_record_lines = <<>>
    /\ processed = 0
    /\ total_processed = 0
    /\ valid_records = 0
    /\ fk_violations = 0
    /\ malformed_records = 0
    /\ written = <<>>
    /\ pc = "idle"
    /\ broke = FALSE
    /\ handed = <<>>
    /\ origin = <<>>

LLMIdle ==
    /\ header_line = <<>>
    /\ infile = <<>>
    /\ current_line = <<>>
    /\ outfile = <<>>
    /\ stats = [total_rows |-> 0, processed_rows |-> 0, malformed_rows |-> 0,
                fixed_rows |-> 0, skipped_rows |-> 0, constraint_violations |-> 0]
    /\ lpc = "idle"
    /\ validated = <<>>

FixIdle ==
    /\ content = <<>>
    /\ line_index = 0
    /\ fixed_records = <<>>
    /\ current_record = <<>>
    /\ record_count = 0
    /\ field_count = 0
    /\ fixed_file = <<>>
    /\ fpc = "idle"

ValidateIdle ==
    /\ arg_row = <<>>
    /\ ret_validation = [is_valid |-> TRUE, errors |-> <<>>, warnings |-> <<>>]
    /\ vpc = "idle"

TextIdle ==
    /\ arg_text = <<>>
    /\ ret_text = <<>>
    /\ tpc = "idle"

CompResolverIdle ==
    /\ comp_columns = <<>>
    /\ comp_quoted = FALSE
    /\ comp_split = FALSE
    /\ arg_comp_lines = <<>>
    /\ ret_comp_record = None
    /\ cpc = "idle"

InitResolver ==
    /\ ResolverInit /\ SegIdle /\ LLMIdle /\ FixIdle /\ ValidateIdle /\ TextIdle
    /\ CompResolverIdle /\ MainInit /\ ProcessInit
    /\ AnchorIdle /\ SimpleIdle

InitSeg ==
    /\ SegInit /\ ResolverIdle /\ LLMIdle /\ FixIdle /\ ValidateIdle /\ TextIdle
    /\ CompResolverIdle /\ MainInit /\ ProcessIdle
    /\ AnchorIdle /\ SimpleIdle

InitLLM ==
    /\ LLMInit /\ ResolverIdle /\ SegIdle /\ FixIdle /\ ValidateIdle /\ TextIdle
    /\ CompResolverIdle /\ MainInit /\ ProcessIdle
    /\ AnchorIdle /\ SimpleIdle

InitFix ==
    /\ FixInit /\ ResolverIdle /\ SegIdle /\ LLMIdle /\ ValidateIdle /\ TextIdle
    /\ CompResolverIdle /\ MainInit /\ ProcessIdle
    /\ AnchorIdle /\ SimpleIdle

InitValidate ==
    /\ ValidateInit /\ ResolverIdle /\ SegIdle /\ LLMIdle /\ FixIdle /\ TextIdle
    /\ CompResolverIdle /\ MainInit /\ ProcessIdle
    /\ AnchorIdle /\ SimpleIdle

InitText ==
    /\ TextInit /\ ResolverIdle /\ SegIdle /\ LLMIdle /\ FixIdle /\ ValidateIdle
    /\ CompResolverIdle /\ MainInit /\ ProcessIdle
    /\ AnchorIdle /\ SimpleIdle

InitCompResolver ==
    /\ CompResolverInit /\ ResolverIdle /\ SegIdle /\ LLMIdle /\ FixIdle
    /\ ValidateIdle /\ TextIdle /\ MainInit /\ ProcessIdle
    /\ AnchorIdle /\ SimpleIdle

SpecResolver == InitResolver /\ [][ResolverNext]_vars

SpecSeg == InitSeg /\ [][SegNext]_vars

SpecLLM == InitLLM /\ [][LLMNext]_vars

SpecFix == InitFix /\ [][FixNext]_vars

SpecValidate == InitValidate /\ [][ValidateNext]_vars

SpecText == InitText /\ [][TextNext]_vars

SpecCompResolver == InitCompResolver /\ [][CompResolverNext]_vars

InitAnchor ==
    /\ AnchorInit /\ ResolverIdle /\ SegIdle /\ LLMIdle /\ FixIdle /\ ValidateIdle
    /\ TextIdle /\ CompResolverIdle /\ MainInit /\ ProcessIdle /\ SimpleIdle

SpecAnchor == InitAnchor /\ [][AnchorNext]_vars

InitSimple ==
    /\ SimpleInit /\ ResolverIdle /\ SegIdle /\ LLMIdle /\ FixIdle /\ ValidateIdle
    /\ TextIdle /\ CompResolverIdle /\ MainInit /\ ProcessIdle /\ AnchorIdle

SpecSimple == InitSimple /\ [][SimpleNext]_vars

(***************************************************************************)
(* Vocabulary of the properties, stated from the specification and not     *)
(* through the operators that model the scripts.                           *)
(***************************************************************************)
\* The record-start anchor: 8-4-4-4-12 lowercase hexadecimal digits in
\* hyphenated groups at the start of the line, followed by a comma.
IsAnchorLine(l) ==
    /\ Len(l) >= 37
    /\ \A j \in 1..36 :
          IF j \in {9, 14, 19, 24} THEN l[j] = "-"
          ELSE l[j] \in {"0", "1", "2", "3", "4", "5", "6", "7", "8", "9",
                         "a", "b", "c", "d", "e", "f"}
    /\ l[37] = ","

\* The first n physical lines without their line terminators.
Physical(n) == [k \in 1..n |-> RStrip(lines[k], LineEnd)]

Anchors(ls) == {k \in 1..Len(ls) : IsAnchorLine(ls[k])}

\* The logical record that starts at anchor line k: the lines up to the
\* next anchor line or the end of the input.
Segment(ls, k) ==
    LET later == {j \in Anchors(ls) : j > k}
    IN  SubSeq(ls, k, IF later = {} THEN Len(ls)
                      ELSE (CHOOSE j \in later : \A i \in later : j <= i) - 1)

RECURSIVE Flatten(_)
Flatten(seqs) == IF seqs = <<>> THEN <<>> ELSE Head(seqs) \o Flatten(Tail(seqs))

Range(f) == {f[i] : i \in DOMAIN f}

LoopOver == pc \in {"write", "done", "raised"}

\* C1: every record appended to the output list has 13 fields in
\* create_clean_csv and 14 fields in fix_competitor_csv.
C1_Arity ==
    /\ prog = "create_clean_csv" => \A k \in 1..Len(records) : Len(records[k]) = 13
    /\ prog = "fix_competitor_csv" => \A k \in 1..Len(records) : Len(records[k]) = 14

C1_Witness ==
    /\ prog = "create_clean_csv"
    /\ pc = "done"
    /\ Len(records) = 2
    /\ Len(handed) = 3

\* C2: in fix_competitor_csv and fix_competitor_csv_final the llm_analysis_id
\* (3rd column) of every record in the list handed to the writer, and of
\* every row written, is a member of valid_llm_ids.
C2_ForeignKey ==
    prog \in {"fix_competitor_csv", "fix_competitor_csv_final"}
    => /\ \A k \in 1..Len(records) : records[k][3] \in valid_llm_ids
       /\ \A k \in 1..Len(written) : written[k][3] \in valid_llm_ids

\* A run that wrote a record and rejected another for its foreign key.
C2_Witness ==
    /\ prog = "fix_competitor_csv_final"
    /\ pc = "done"
    /\ Len(written) >= 1
    /\ fk_violations >= 1

\* C3: a well-formed quoted row is resolved to its own thirteen column values.
C3_RoundTripIdentity ==
    (rpc = "returned" /\ quoted) => ret_record = columns

\* C4: the scenario line resolves to a 13-tuple with response_text hello,
\* summary_text world, the two timestamps in columns 11 and 12 and an empty
\* analysis_session_id.
C4_ScenarioResolved ==
    (rpc = "returned" /\ quoted /\ SubSeq(columns, 1, 10) = SubSeq(ScenarioColumns, 1, 10)
        /\ columns[13] = <<>>)
    => /\ Len(ret_record) = 13
       /\ ret_record[9] = Hello
       /\ ret_record[10] = World
       /\ ret_record[11] = columns[11]
       /\ ret_record[12] = columns[12]
       /\ ret_record[13] = <<>>

C4_Witness ==
    /\ rpc = "returned"
    /\ arg_lines = <<ScenarioLine>>
    /\ ret_record = ScenarioColumns

\* The text "hel lo": the two fragments of hello joined by one space.
HelLo == <<"h", "e", "l", " ", "l", "o">>

\* C5: a 13-column record split across two physical lines inside
\* response_text is segmented into one logical record and resolved to the
\* columns of the unsplit record, response_text being the two fragments
\* joined by one space.
C5_SplitRecordResolved ==
    (/\ prog = "create_clean_csv"
     /\ pc = "done"
     /\ Len(lines) = 2
     /\ lines[1] \in {ScenarioHead \o Eol, EqualScoresHead \o Eol}
     /\ lines[2] = ScenarioTail \o Eol)
    => /\ Len(handed) = 1
       /\ records = << SubSeq(Split(Physical(1)[1], ","), 1, 8)
                         \o <<HelLo, World, TsA, TsA, <<>>>> >>

\* C6 as stated: the logical records handed to the resolver are exactly the
\* runs of lines that start at an anchor line and end before the next one;
\* lines before the first anchor line are discarded, and the records in
\* order are the input lines from the first anchor line onward.
SegmentsOf(n) ==
    LET ls == Physical(n)
        open == IF pc \in {"loop", "final"} /\ current_record_lines # <<>>
                THEN <<[start |-> OpenStart(Seen), lines |-> current_record_lines]>>
                ELSE <<>>
        all == handed \o open
    IN  /\ \A i \in 1..Len(all) :
              /\ all[i].start \in Anchors(ls)
              /\ all[i].lines = Segment(ls, all[i].start)
              /\ \A j \in 1..Len(all) : i < j => all[i].start < all[j].start
        /\ {all[i].start : i \in 1..Len(all)} = Anchors(ls)
        /\ Flatten([i \in 1..Len(all) |-> all[i].lines])
             = IF Anchors(ls) = {} THEN <<>>
               ELSE SubSeq(ls, CHOOSE k \in Anchors(ls) : \A j \in Anchors(ls) : k <= j,
                           Len(ls))

C6_SegmentsAllLines == SegmentsOf(Len(lines))

\* C6 as amended: the same for the lines that went through the loop body;
\* the line at which create_clean_csv leaves the loop on max_records, and
\* whatever follows it, is not segmented.
C6_SegmentsSeenLines == SegmentsOf(Seen)

\* A leading non-anchor line was discarded, a continuation line appended
\* and two records handed over.
C6_Witness ==
    /\ pc = "done"
    /\ Len(lines) = MaxLines
    /\ ~IsAnchorLine(Physical(1)[1])
    /\ Len(handed) >= 1
    /\ \E i \in 1..Len(handed) : Len(handed[i].lines) = 2

\* Whether the script accepts the logical record rec into its output list.
Accepts(rec) ==
    IF prog = "create_clean_csv"
    THEN LET r == parse_record_lines(rec) IN r # None /\ Len(r) = 13
    ELSE IF prog = "fix_competitor_csv"
    THEN LET r == parse_competitor_record(rec)
         IN  r # None /\ Len(r) = 14 /\ r[3] \in valid_llm_ids
    ELSE LET r == parse_competitor_record_robust(rec)
         IN  r # None /\ Len(r) = 14 /\ r[3] \in valid_llm_ids

\* C7: at the end of the input the open record is handed to the resolver
\* and accepted under the same conditions as a record followed by another
\* anchor line: every record of the input, the last one included, is in
\* the output exactly when it resolves (and, for the competitor table,
\* references a valid parent).
C7_FinalRecordFlushed ==
    (LoopOver /\ ~broke /\ prog \in {"create_clean_csv", "fix_competitor_csv"})
    => LET ls == Physical(Len(lines))
       IN  /\ \A k \in Anchors(ls) : (k \in Range(origin)) <=> Accepts(Segment(ls, k))
           /\ \A k \in Anchors(ls) : \E i \in 1..Len(handed) : handed[i].start = k

\* The last record of the input is accepted although no anchor line follows.
C7_Witness ==
    /\ LoopOver /\ ~broke
    /\ prog = "fix_competitor_csv"
    /\ Len(origin) = 2
    /\ origin[2] = Len(lines)

\* A physical line with fewer than 8 comma-delimited tokens.
IsShortLine(l) == Len(Split(l, ",")) < 8

\* C8 as stated, first half: the text of a short line appears in no
\* accepted record.
C8_ShortLineDropped ==
    (prog = "create_clean_csv" /\ pc = "done")
    => \A k \in 1..Len(lines) :
          LET l == Physical(Len(lines))[k]
          IN  IsShortLine(l)
              => \A i \in 1..Len(records) : \A f \in 1..Len(records[i]) :
                     Find(records[i][f], l) = -1

\* ls without its line k
RemoveAt(ls, k) == SubSeq(ls, 1, k - 1) \o SubSeq(ls, k + 1, Len(ls))

\* The accepted records of the logical records that start at line k of ls
\* or later, in order.
RECURSIVE ResolvedFrom(_, _)
ResolvedFrom(ls, k) ==
    IF k > Len(ls) THEN <<>>
    ELSE IF IsAnchorLine(ls[k])
    THEN LET r == parse_record_lines(Segment(ls, k))
         IN  (IF r # None /\ Len(r) = 13 THEN <<r>> ELSE <<>>) \o ResolvedFrom(ls, k + 1)
    ELSE ResolvedFrom(ls, k + 1)

\* The elements of records whose logical record starts after line k.
RecordsAfter(k) ==
    LET idx == {i \in 1..Len(records) : origin[i] > k}
    IN  SubSeq(records, Len(records) - Cardinality(idx) + 1, Len(records))

\* C8 as amended: whatever becomes of a short line itself, every record
\* that starts at a later anchor line is segmented and resolved as it would
\* be if the line were absent (create_clean_csv without max_records).
C8_LaterRecordsUnaffected ==
    (prog = "create_clean_csv" /\ pc = "done" /\ max_records = 0)
    => LET ls == Physical(Len(lines))
       IN  \A k \in 1..Len(ls) :
              IsShortLine(ls[k]) => RecordsAfter(k) = ResolvedFrom(RemoveAt(ls, k), k)

\* A short line was appended to an open record that was accepted with it,
\* and a record that starts after it was accepted too.
C8_Witness ==
    /\ prog = "create_clean_csv" /\ pc = "done" /\ max_records = 0
    /\ Len(lines) = 3
    /\ Physical(3)[2] = JunkLine
    /\ Len(records) = 2
    /\ records[1][13] = JunkLine

\* The row a physical line makes when the CSV reader is given that line
\* alone.
RowOfLine(l) == csv_first_row(RStrip(l, LineEnd), TRUE)

\* C9: in LLMCSVCleaner.process_file a failure is local to one record:
\* after a physical line that does not parse to 13 CSV fields, every later
\* physical line that by itself is a well-formed 13-field row passing
\* validate_row is written to the output.
C9_FailureLocalToRecord ==
    lpc = "returned"
    => \A i \in 1..Len(infile) : \A j \in 1..Len(infile) :
          \A bad \in {RowOfLine(infile[i])} : \A good \in {RowOfLine(infile[j])} :
              (/\ i < j
               /\ (bad.kind # "row" \/ Len(bad.row) # 13)
               /\ good.kind = "row" /\ Len(good.row) = 13
               /\ validate_row(good.row).is_valid)
              => writerow(with_clean_text(good.row)) \in Range(outfile)

\* The data lines of the file fix_csv_file reads.
DataLines == Tail(content_lines)

\* A line that nothing can complete into a 13-field record: it is not
\* empty, has no quote that later lines could close, and does not have 13
\* fields.
CannotBeCompleted(l) ==
    /\ l # <<>>
    /\ \A k \in 1..Len(l) : l[k] # "\""
    /\ Len(Split(l, ",")) # 13

\* A line that is by itself a complete 13-field record whose first field
\* is a UUID.
CompleteRecord(l) ==
    \E parsed \in {csv_first_row(l, FALSE)} :
        /\ parsed.kind = "row"
        /\ Len(parsed.row) = 13
        /\ IsAnchorLine(l)

\* C10: in fix_csv_file a failure is local to one record: after a physical
\* line that cannot be completed into a 13-field record, every later line
\* that is by itself a complete 13-field record whose first field is a UUID
\* is appended to the fixed output and counted in record_count.
C10_FailureLocalToRecord ==
    fpc = "returned"
    => \A ls \in {DataLines} : \A i \in 1..Len(ls) : \A j \in 1..Len(ls) :
          (i < j /\ CannotBeCompleted(ls[i]) /\ CompleteRecord(ls[j]))
          => /\ \E k \in 2..Len(fixed_records) : fixed_records[k] = ls[j]
             /\ \E k \in 2..Len(fixed_file) : fixed_file[k] = ls[j] \o Eol
             /\ record_count >= Cardinality({n \in 1..Len(ls) : n > i /\ CompleteRecord(ls[n])})

(***************************************************************************)
(* C11.  In fix_competitor_csv every logical record that resolves to 14    *)
(* fields and whose llm_analysis_id is not in valid_llm_ids adds exactly   *)
(* one to fk_violations and exactly one to total_processed, leaves         *)
(* valid_records alone and is not appended to records: at every point of   *)
(* the run fk_violations is the number of such records handed to the       *)
(* resolver so far, total_processed the number of 14-field records,        *)
(* valid_records the number of the others, and records holds exactly the   *)
(* others, in order.                                                       *)
(***************************************************************************)
\* What parse_competitor_record returned for each logical record so far.
CompResolved == [k \in 1..Len(handed) |-> parse_competitor_record(handed[k].lines)]

\* C11: in fix_competitor_csv every resolved 14-field record whose
\* llm_analysis_id is not in valid_llm_ids adds exactly one to fk_violations
\* and to total_processed, leaves valid_records unchanged and is not
\* appended to records.
C11_ViolationCountedAndExcluded ==
    prog = "fix_competitor_csv" =>
        \E res \in {CompResolved} :
            LET resolved == {k \in 1..Len(res) : IsRecord14(res[k])}
                violating == {k \in resolved : res[k][3] \notin valid_llm_ids}
                kept == SelectSeq(res, LAMBDA r : IsRecord14(r) /\ r[3] \in valid_llm_ids)
            IN  /\ fk_violations = Cardinality(violating)
                /\ total_processed = Cardinality(resolved)
                /\ valid_records = Cardinality(resolved \ violating)
                /\ records = kept
                /\ \A k \in violating : res[k] \notin Range(records)

\* A run in which one record was counted as a violation and another accepted.
C11_Witness ==
    /\ prog = "fix_competitor_csv"
    /\ pc = "done"
    /\ fk_violations >= 1
    /\ valid_records >= 1
    /\ \E k \in 1..Len(handed) :
          /\ k = Len(handed)
          /\ IsRecord14(parse_competitor_record(handed[k].lines))
          /\ parse_competitor_record(handed[k].lines)[3] \notin valid_llm_ids

(***************************************************************************)
(* C12.  In fix_competitor_csv every logical record for which              *)
(* parse_competitor_record fails adds one to malformed_records, the last   *)
(* record of the input included: when the run has passed the end of the    *)
(* input, the number of logical records equals total_processed +           *)
(* malformed_records.                                                      *)
(***************************************************************************)
\* C12: at the end of a run of fix_competitor_csv the number of logical
\* records segmented equals total_processed + malformed_records: every
\* record that fails to resolve, the last one included, is counted as
\* malformed.
C12_MalformedCounted ==
    (prog = "fix_competitor_csv" /\ pc \in {"write", "done", "raised"}) =>
        Len(handed) = total_processed + malformed_records

(***************************************************************************)
(* C13.  validate_row returns is_valid = false exactly when it records at  *)
(* least one hard error, and the hard errors are: a wrong column count, an *)
(* invalid UUID in id, prompt_id or website_id, an llm_provider outside    *)
(* the allowed set, a rank_position that is an integer below -1, a         *)
(* sentiment_score outside [-1.0, 1.0], a confidence_score outside         *)
(* [0.0, 1.0].  An unrecognised boolean, a rank_position or score that is  *)
(* no number, and an invalid optional analysis_session_id add a warning    *)
(* and leave is_valid true.                                                *)
(***************************************************************************)
\* A score that is a number and not inside [lo, hi].
ScoreOutside(field, lo, hi) ==
    \E x \in {float_of(field)} :
        \/ x.kind \in {"nan", "inf"}
        \/ /\ x.kind = "number"
           /\ LET signed == IF x.negative THEN 0 - x.num ELSE x.num
              IN  signed < lo * x.den \/ signed > hi * x.den

NoNumber(field) == StripWs(field) # <<>> /\ float_of(field).kind = "ValueError"

HardError(r) ==
    \/ Len(r) # 13
    \/ \E k \in {1, 2, 4} : ~is_valid_uuid(r[k])
    \/ r[3] \notin {Chatgpt, Claude, Gemini, Perplexity, Gpt4, Claude3}
    \/ int_accepts(r[6], 10) /\ int_value(r[6]) < -1
    \/ ScoreOutside(r[7], -1, 1)
    \/ ScoreOutside(r[8], 0, 1)

WarningOnly(r) ==
    /\ ~HardError(r)
    /\ \/ StripWs(lower(r[5])) \notin BooleanWords
       \/ StripWs(r[6]) # <<>> /\ ~int_accepts(r[6], 10)
       \/ NoNumber(r[7])
       \/ NoNumber(r[8])
       \/ r[13] # <<>> /\ ~is_valid_uuid(r[13])

\* C13: validate_row returns is_valid = false exactly when it records a
\* hard error, the hard errors being those listed above; the warning cases
\* add a warning and leave is_valid true.
C13_HardErrorsDecideValidity ==
    vpc = "returned" =>
        /\ ret_validation.is_valid <=> (ret_validation.errors = <<>>)
        /\ ret_validation.is_valid <=> ~HardError(arg_row)
        /\ WarningOnly(arg_row) => (ret_validation.is_valid /\ ret_validation.warnings # <<>>)

\* A row with a score out of range, rejected, next to warnings.
C13_Witness ==
    /\ vpc = "returned"
    /\ ~ret_validation.is_valid
    /\ ret_validation.errors = <<"confidence_score">>
    /\ Len(ret_validation.warnings) >= 2

(***************************************************************************)
(* C14.  A 13-field row whose analysis_session_id is not empty and is no   *)
(* UUID is written by LLMCSVCleaner with analysis_session_id coerced to    *)
(* the empty string: no data row of the output file carries an             *)
(* analysis_session_id that is neither empty nor a UUID.                   *)
(***************************************************************************)
\* The fields of the k-th line of the output file, read back.
WrittenRow(k) == csv_first_row(RStrip(outfile[k], LineEnd), TRUE).row

\* C14: a written 13-field row never carries an analysis_session_id that
\* is neither empty nor a UUID: an invalid optional id is coerced to the
\* empty string.
C14_OptionalIdCoerced ==
    \A k \in 2..Len(outfile) :
        \E r \in {WrittenRow(k)} :
            Len(r) = 13 => (r[13] = <<>> \/ is_valid_uuid(r[13]))

(***************************************************************************)
(* C15.  process_file applies one acceptance policy to the rows that       *)
(* validate_row marks invalid: whether such a row was parsed by the csv    *)
(* reader, repaired by fix_malformed_csv_line or left over at the end of   *)
(* the input, it is always written or always dropped.                      *)
(***************************************************************************)
\* C15: any two rows that validate_row marked invalid were treated alike,
\* both written or both dropped, whatever path they took.
C15_OnePolicy ==
    \A j, k \in 1..Len(validated) :
        (~validated[j].is_valid /\ ~validated[k].is_valid)
            => validated[j].written = validated[k].written

(***************************************************************************)
(* C16.  As stated: for every field of length greater than the cap,        *)
(* clean_text_field returns exactly cap characters followed by the         *)
(* truncation marker, and a field of length at most the cap is returned    *)
(* without the marker.                                                     *)
(***************************************************************************)
EndsWithMarker(t) ==
    Len(t) >= Len(Truncated) /\ SubSeq(t, Len(t) - Len(Truncated) + 1, Len(t)) = Truncated

\* C16 as stated: a field longer than the cap comes back as exactly cap
\* characters followed by the truncation marker; a field of at most cap
\* characters comes back without the marker.
C16_TruncationByFieldLength ==
    tpc = "clean_text_field" =>
        IF Len(arg_text) > TextCap
        THEN Len(ret_text) = TextCap + Len(Truncated) /\ EndsWithMarker(ret_text)
        ELSE ~EndsWithMarker(ret_text)

(***************************************************************************)
(* C16, amended.  The cap applies to the text after the NUL characters are *)
(* removed and newlines, carriage returns and quotes are escaped: when     *)
(* that text is longer than the cap, clean_text_field returns its first    *)
(* cap characters followed by the truncation marker, never more; otherwise *)
(* it returns that text, without the marker.                               *)
(***************************************************************************)
\* The text without NUL characters, with \n, \r and " escaped.
Escaped(t) ==
    replace_str(replace_str(replace_str(remove_char(t, Nul), "\n", <<"\\", "n">>),
                            "\r", <<"\\", "r">>),
                "\"", <<"\"", "\"">>)

\* C16 as amended: the cap applies to the escaped text; longer than the cap,
\* it comes back as its first cap characters followed by the marker, never
\* more; otherwise it comes back whole, without the marker.
C16_TruncationByEscapedLength ==
    tpc = "clean_text_field" =>
        \E e \in {Escaped(arg_text)} :
            IF Len(e) > TextCap
            THEN /\ ret_text = SubSeq(e, 1, TextCap) \o Truncated
                 /\ Len(ret_text) = TextCap + Len(Truncated)
            ELSE ret_text = e

\* A field shorter than the cap whose escaped text is longer, truncated.
C16_Witness ==
    /\ tpc = "clean_text_field"
    /\ Len(arg_text) <= TextCap
    /\ Len(ret_text) = TextCap + Len(Truncated)
    /\ EndsWithMarker(ret_text)

(***************************************************************************)
(* C17.  Every field fix_competitor_csv_final writes after its field       *)
(* cleaning holds no NUL, no carriage return, no newline and no two        *)
(* consecutive whitespace characters, whatever the field held.             *)
(***************************************************************************)
\* C17: a field cleaned by fix_competitor_csv_final holds no NUL, no
\* carriage return, no newline and no two consecutive whitespace characters.
C17_CleanedFieldNormalised ==
    tpc = "cleaned_field" =>
        /\ \A i \in 1..Len(ret_text) : ret_text[i] \notin {Nul, "\r", "\n"}
        /\ \A i \in 1..(Len(ret_text) - 1) :
              ~(ret_text[i] \in Whitespace /\ ret_text[i + 1] \in Whitespace)

(***************************************************************************)
(* C18.  For a competitor record whose free texts contain a comma and      *)
(* whose text span contains no "," joint, parse_competitor_record returns  *)
(* the eight leading columns, both timestamps and the two trailing columns *)
(* as they are in the record, and the whole text span (without the         *)
(* commas, blanks and quotes at its ends) as response_text with an empty   *)
(* summary_text; resolving the joined text again gives the same tuple.     *)
(***************************************************************************)
\* The text between confidence_score and analyzed_at in the joined lines.
TextSpan ==
    LET joined == Join(arg_comp_lines, <<" ">>)
        from == Len(Csv(SubSeq(comp_columns, 1, 8))) + 1
        rest == Csv(SubSeq(comp_columns, 11, 14))
    IN  Slice(joined, from, Len(joined) - Len(rest) - 1)

NoJointCase ==
    /\ cpc = "returned"
    /\ \E k \in {9, 10} : Find(comp_columns[k], <<",">>) >= 0
    /\ Find(TextSpan, Joint) = -1

\* C18: in the no-joint case parse_competitor_record returns the leading
\* columns, the timestamps and the trailing columns of the record, the
\* whole text span as response_text, and the same tuple when the joined
\* text is resolved again.
C18_NonTextColumnsAndSpan ==
    NoJointCase =>
        /\ ret_comp_record =
              SubSeq(comp_columns, 1, 8)
                \o <<Strip(Strip(TextSpan, SpaceComma), Quote), <<>>>>
                \o SubSeq(comp_columns, 11, 14)
        /\ parse_competitor_record(<<Join(arg_comp_lines, <<" ">>)>>) = ret_comp_record

(***************************************************************************)
(* C19.  The rows create_clean_csv writes are the accepted records: one    *)
(* row for every logical record of the first n input lines that resolves   *)
(* to 13 fields, none twice and none left out, in the order of their       *)
(* anchor lines, each row being the resolved columns in schema order       *)
(* (the id of the anchor line first).                                      *)
(***************************************************************************)
OutputOf(n) ==
    LET ls == Physical(n)
        resolves(k) == \E r \in {parse_record_lines(Segment(ls, k))} :
                           r # None /\ Len(r) = 13
        accepted == {k \in Anchors(ls) : resolves(k)}
    IN  /\ Len(written) = Cardinality(accepted)
        /\ Len(origin) = Len(written)
        /\ Range(origin) = accepted
        /\ \A i, j \in 1..Len(origin) : i < j => origin[i] < origin[j]
        /\ \A i \in 1..Len(written) :
              /\ written[i] = parse_record_lines(Segment(ls, origin[i]))
              /\ Len(written[i]) = 13
              /\ written[i][1] = SubSeq(ls[origin[i]], 1, 36)

\* C19 as stated: the output of create_clean_csv holds exactly one row per
\* logical record of the input that resolves to 13 fields, none duplicated
\* or omitted, in the order of the anchor lines.
C19_OutputOfInput ==
    (prog = "create_clean_csv" /\ pc = "done") => OutputOf(Len(lines))

\* C19 as amended: the same for the logical records of the lines that went
\* through the loop body; with max_records set, the records that start at
\* or after the line at which the loop stops are not in the output.
C19_OutputOfSeenLines ==
    (prog = "create_clean_csv" /\ pc = "done") => OutputOf(Seen)

\* Two different rows written in input order, the second resolved from a
\* record of two physical lines.
C19_Witness ==
    /\ prog = "create_clean_csv"
    /\ pc = "done"
    /\ Len(lines) = 3
    /\ origin = <<1, 2>>
    /\ Len(written) = 2
    /\ written[1] # written[2]

\* C20: fix_competitor_csv writes its report and returns normally whatever
\* the records of the input are, also when no record is resolved
\* (total_processed = 0): the run never ends by an exception.
C20_ReportWrittenAndReturns ==
    prog = "fix_competitor_csv" => pc # "raised"

(***************************************************************************)
(* C21.  Only I/O-level failures are fatal: they end the run with a        *)
(* non-zero exit and a printed cause.                                      *)
(***************************************************************************)
\* C21: when the input path cannot be opened, the run of
\* create_clean_csv.py ends with a non-zero exit status after printing the
\* cause.
C21_OpenFailureExitsNonZero ==
    (prog = "create_clean_csv" /\ pc = "open_failed" /\ exited) =>
        (printed = "Error" /\ exit_status # 0)

(***************************************************************************)
(* C22.  Everything between the end of the fixed prefix and the start of   *)
(* the analyzed_at anchor is the text span.                                *)
(***************************************************************************)
\* Offset in the full line of the character after the delimiter that
\* follows the 8th column.
AfterEighthColumn(full_line) ==
    LET parts == Split(full_line, ",")
        RECURSIVE upto(_)
        upto(k) == IF k = 0 THEN 0 ELSE upto(k - 1) + Len(parts[k]) + 1
    IN  upto(8)

\* The text span of a record as the specification delimits it.
SpanAfterPrefix(record_lines) ==
    LET full_line == full_line_of(record_lines)
        timestamps == timestamp_finditer(full_line)
    IN  Strip(Slice(full_line, AfterEighthColumn(full_line),
                    timestamps[Len(timestamps) - 1].start),
              SpaceComma)

\* C22: for every record with at least 8 leading tokens and two timestamp
\* anchors, the two text columns parse_record_lines returns are those of
\* the span that begins right after the delimiter following the 8th column
\* and ends at the start of the analyzed_at anchor, whatever the value of
\* the 8th column is.
C22_SpanStartsAfterEighthColumn ==
    (rpc = "returned" /\ ret_record # None) =>
        <<ret_record[9], ret_record[10]>> = text_parts_of(SpanAfterPrefix(arg_lines))

(***************************************************************************)
(* C23.  Everything after the created_at anchor is split by delimiter into *)
(* the trailing columns; missing trailing columns default to the empty     *)
(* string.                                                                 *)
(***************************************************************************)
\* C23: parse_competitor_record takes the first token after created_at as
\* prompt_id and the second as analysis_session_id, an empty token staying
\* an empty column in its own position, and does not reject the record.
C23_TrailingColumnsPositional ==
    cpc = "returned" =>
        /\ ret_comp_record # None
        /\ ret_comp_record[13] = comp_columns[13]
        /\ ret_comp_record[14] = comp_columns[14]

(***************************************************************************)
(* C24.  The text span is split on the last occurrence of the joint; the   *)
(* left part is response_text, the right part summary_text, each with its  *)
(* surrounding quote stripped; without a joint the whole span is           *)
(* response_text and summary_text is empty.                                *)
(***************************************************************************)
\* The two text columns of a span, by the rule of the specification.
SplitAtLastJoint(span) ==
    LET at == {j \in 0..Len(span) : StartsWithAt(span, Joint, j)}
    IN  IF at = {} THEN <<Strip(span, Quote), <<>>>>
        ELSE LET last == CHOOSE j \in at : \A k \in at : k <= j
             IN  <<Strip(Slice(span, 0, last), Quote),
                   Strip(Slice(span, last + Len(Joint), Len(span)), Quote)>>

\* The span parse_record_lines splits.
ParseSpan ==
    LET full_line == full_line_of(arg_lines)
        timestamps == timestamp_finditer(full_line)
    IN  middle_part_of(full_line, StripWs(Split(full_line, ",")[8]),
                       timestamps[Len(timestamps) - 1].start)

ParseSplitsAtLastJoint ==
    (rpc = "returned" /\ ret_record # None) =>
        <<ret_record[9], ret_record[10]>> = SplitAtLastJoint(ParseSpan)

ProcessSplitsAtLastJoint ==
    (ppc = "returned" /\ ret_fields # None) =>
        <<ret_fields[9], ret_fields[10]>> = SplitAtLastJoint(response_text_of(arg_lines))

\* C24: parse_record_lines and process_record_lines both return, as
\* response_text and summary_text, the two parts of the text span around
\* its last joint with their surrounding quotes stripped, and the whole
\* span with an empty summary_text when the span holds no joint.
C24_BothResolversSplitAtLastJoint ==
    ParseSplitsAtLastJoint /\ ProcessSplitsAtLastJoint

(***************************************************************************)
(* C25.  At least two timestamp matches are required; the second-to-last   *)
(* and the last match are the analyzed_at and created_at anchors.          *)
(***************************************************************************)
\* The record text a resolver was given, as it joins the lines.
AnchorText == StripWs(Join(arg_anchor_lines, <<" ">>))

\* The offsets in a text at which the timestamp pattern matches.  No match
\* of the pattern can begin inside another, so these are the matches.
MatchStarts(s) == {p \in 0..Len(s) : TimestampEndAt(s, p) >= 0}

\* The k-th match from the end (k = 1: the last).
MatchFromEnd(s, k) ==
    LET p == CHOOSE q \in MatchStarts(s) :
                 Cardinality({x \in MatchStarts(s) : x > q}) = k - 1
    IN  Slice(s, p, TimestampEndAt(s, p))

\* C25: parse_record_lines and parse_competitor_record return no tuple
\* when the record text holds fewer than two timestamp matches; otherwise
\* analyzed_at is the second-to-last match and created_at the last match,
\* also when the free texts hold timestamp-shaped text.
C25_LastTwoMatchesAreAnchors ==
    apc \in {"parse_record_lines", "parse_competitor_record"} =>
        IF Cardinality(MatchStarts(AnchorText)) < 2
        THEN ret_anchor = None
        ELSE /\ ret_anchor # None
             /\ ret_anchor[11] = MatchFromEnd(AnchorText, 2)
             /\ ret_anchor[12] = MatchFromEnd(AnchorText, 1)

\* parse_competitor_record resolved a record whose response_text and
\* summary_text both hold a timestamp: four matches, the last two taken.
C25_Witness ==
    /\ apc = "parse_competitor_record"
    /\ anchor_fields = <<SeeTsA, TsB, TsB, TsA>>
    /\ Cardinality(MatchStarts(AnchorText)) = 4
    /\ ret_anchor # None
    /\ ret_anchor[9] = SeeTsA
    /\ ret_anchor[11] = TsB
    /\ ret_anchor[12] = TsA

(***************************************************************************)
(* C26.  The timestamp pattern is YYYY-MM-DD HH:MM:SS.ffffff followed by a *)
(* signed two-digit UTC offset.                                            *)
(***************************************************************************)
\* C26: a record whose analyzed_at and created_at carry a negative UTC
\* offset is resolved, with those two timestamps as its anchors, just like
\* a record with positive offsets.
C26_NegativeOffsetResolved ==
    (apc \in {"parse_record_lines", "parse_competitor_record"}
        /\ anchor_fields[3] = TsNegA /\ anchor_fields[4] = TsNegB) =>
        /\ ret_anchor # None
        /\ ret_anchor[11] = TsNegA
        /\ ret_anchor[12] = TsNegB

(***************************************************************************)
(* C27.  Sanitization is applied to the two free-text columns only.        *)
(***************************************************************************)
\* C27: in every row written by fix_competitor_csv_final, each column
\* other than response_text and summary_text is identical to the value the
\* resolver produced for it.
C27_OnlyTextColumnsSanitized ==
    (prog = "fix_competitor_csv_final" /\ pc = "done") =>
        /\ Len(written) = Len(records)
        /\ \A k \in 1..Len(written) :
              \A col \in (1..14) \ {9, 10} : written[k][col] = records[k][col]

(***************************************************************************)
(* C28.  max_records limits the number of records of a run of              *)
(* create_clean_csv.                                                       *)
(***************************************************************************)
\* C28: called with max_records = m > 0, create_clean_csv writes and
\* returns at most m records.
C28_AtMostMaxRecords ==
    (prog = "create_clean_csv" /\ max_records > 0 /\ pc = "done") =>
        Len(written) <= max_records

(***************************************************************************)
(* C29.  fix_csv_simple run on its own output gives that output again.     *)
(***************************************************************************)
\* No two whitespace characters in a row, none at the ends, and no
\* whitespace other than the space.
Collapsed(s) ==
    /\ \A k \in 1..Len(s) : s[k] \in Whitespace => s[k] = " "
    /\ \A k \in 1..(Len(s) - 1) : ~(s[k] = " " /\ s[k + 1] = " ")
    /\ s # <<>> => (s[1] # " " /\ s[Len(s)] # " ")

\* C29: the second run of fix_csv_simple, on the output of the first,
\* writes the same lines and returns the same record count; every data
\* line of the first output starts with the record-start anchor and has
\* its whitespace runs collapsed to single spaces.
C29_SimpleIdempotent ==
    (simple_run = 2 /\ spc = "returned") =>
        /\ simple_file = simple_first.file
        /\ simple_record_count = simple_first.record_count
        /\ \A k \in 2..Len(simple_fixed_lines) :
              /\ uuid_pattern(simple_fixed_lines[k])
              /\ Collapsed(simple_fixed_lines[k])

\* Both runs are over; the first one joined a continuation line to its
\* record, collapsed a run of three blanks and dropped the blanks around
\* the header.
C29_Witness ==
    /\ simple_run = 2
    /\ spc = "returned"
    /\ simple_record_count = 2
    /\ simple_fixed_lines[1] = <<"i", "d", ",", "x">>
    /\ simple_fixed_lines[2] = UuidB \o <<",", "x", " ", "y", " ", "z">>
    /\ simple_fixed_lines[3] = UuidA \o <<",", "a", " ", "b">>

(***************************************************************************)
(* C30.  The accumulation buffer of process_file is bounded.               *)
(***************************************************************************)
\* C30: after each physical line has been processed, current_line holds
\* at most 100,000 characters: it was reset to empty or has not passed the
\* limit.
C30_BufferBounded == Len(current_line) <= 100000

\* A first line of exactly 100,000 characters was kept in the buffer; the
\* second line took the buffer past the limit and the buffer was reset.
C30_Witness ==
    /\ lpc = "loop"
    /\ Len(infile) = 2
    /\ infile[1] = FullJunkLine \o Eol
    /\ infile[2] = JunkLine \o Eol
    /\ stats.skipped_rows = 1
    /\ current_line = <<>>

====
